---------------------------- MODULE Spec2Model ----------------------------
(***************************************************************************)
(* PersonaBench turn-based game core: the three game engines               *)
(* (bench/games/tic_tac_toe, bench/games/blackjack, bench/games/poker) and *)
(* the match orchestrator (bench/core/game_master.py).                     *)
(*                                                                         *)
(* Conventions.                                                            *)
(*  - A Python str is a sequence of one-character strings, so that strip,  *)
(*    lower, replace, split, isdigit and int are computed and not assumed. *)
(*    The one-character string "sup2" stands for U+00B2 (SUPERSCRIPT TWO), *)
(*    a character for which str.isdigit() is true and int() raises.        *)
(*  - Python indices are kept 0-based (current_index, move_index); a       *)
(*    sequence is read at index + 1.                                       *)
(*  - Rewards and scores are floats that are multiples of 0.1 and are the  *)
(*    result of at most a handful of exact additions; they are kept as     *)
(*    integers in tenths (win_reward 1.0 is 10, invalid_penalty -0.5 is    *)
(*    -5).                                                                 *)
(*  - None is the string "None"; a dict is a function on its keys.         *)
(*  - An operation of a game is an operator from the game's state and the  *)
(*    call's arguments to [game |-> state after, ret |-> value returned];  *)
(*    ret.raised tells an exception from a return value.                   *)
(***************************************************************************)
EXTENDS Integers, Sequences, FiniteSets, TLC

VARIABLES
    game,      \* the game instance: a record of its fields, game.kind its class
    ret,       \* what the last call on the game returned (or raised)
    call,      \* the last call made on the game: operation and actor
    rejected,  \* penalised applies since the last reset
    gm,        \* the GameMaster: its fields and the position of run()
    replay     \* the caller of repeated matches: its agents and the runs it has seen

vars == <<game, ret, call, rejected, gm, replay>>

None == "None"

EmptyDict == [k \in {} |-> 0]

(***************************************************************************)
(* Python str operations, on sequences of characters.                      *)
(***************************************************************************)
Whitespace == {" ", "\t", "\n"}

DecimalDigits == <<"0", "1", "2", "3", "4", "5", "6", "7", "8", "9">>

\* Characters with str.isdigit() true that are not decimal digits.
OtherDigits == {"sup2"}

UpperCase == <<"A", "B", "C", "D", "E", "F", "G", "H", "I", "J", "K", "L", "M",
               "N", "O", "P", "Q", "R", "S", "T", "U", "V", "W", "X", "Y", "Z">>

LowerCase == <<"a", "b", "c", "d", "e", "f", "g", "h", "i", "j", "k", "l", "m",
               "n", "o", "p", "q", "r", "s", "t", "u", "v", "w", "x", "y", "z">>

Range(s) == {s[i] : i \in DOMAIN s}

DecimalChars == Range(DecimalDigits)

DigitChars == DecimalChars \cup OtherDigits

UpperChars == Range(UpperCase)

IndexOf(s, x) == CHOOSE i \in DOMAIN s : s[i] = x

RECURSIVE LStrip(_)
LStrip(s) ==
    IF s # <<>> /\ Head(s) \in Whitespace THEN LStrip(Tail(s)) ELSE s

RECURSIVE RStrip(_)
RStrip(s) ==
    IF s # <<>> /\ s[Len(s)] \in Whitespace
    THEN RStrip(SubSeq(s, 1, Len(s) - 1))
    ELSE s

StrStrip(s) == RStrip(LStrip(s))

LowerChar(ch) ==
    IF ch \in UpperChars THEN LowerCase[IndexOf(UpperCase, ch)] ELSE ch

StrLower(s) == [i \in DOMAIN s |-> LowerChar(s[i])]

StrReplace(s, old, new) == [i \in DOMAIN s |-> IF s[i] = old THEN new ELSE s[i]]

\* str.split(): the maximal runs of non-whitespace characters, in order.
RECURSIVE SplitFrom(_, _, _)
SplitFrom(s, cur, acc) ==
    IF s = <<>>
    THEN IF cur = <<>> THEN acc ELSE Append(acc, cur)
    ELSE IF Head(s) \in Whitespace
         THEN SplitFrom(Tail(s), <<>>, IF cur = <<>> THEN acc ELSE Append(acc, cur))
         ELSE SplitFrom(Tail(s), Append(cur, Head(s)), acc)

StrSplit(s) == SplitFrom(s, <<>>, <<>>)

IsDigit(tok) ==
    /\ tok # <<>>
    /\ \A i \in DOMAIN tok : tok[i] \in DigitChars

\* int(tok) raises ValueError unless every character is a decimal digit.
IntRaises(tok) == \E i \in DOMAIN tok : tok[i] \notin DecimalChars

RECURSIVE IntValue(_)
IntValue(tok) ==
    IF tok = <<>> THEN 0
    ELSE 10 * IntValue(SubSeq(tok, 1, Len(tok) - 1))
         + (IndexOf(DecimalDigits, tok[Len(tok)]) - 1)

(***************************************************************************)
(* Values returned by a call on a game.                                    *)
(***************************************************************************)
Raise(e) == [raised |-> TRUE, error |-> e]

TurnUpdate(obs, reward, done, info) ==
    [raised |-> FALSE, observation |-> obs, reward |-> reward, done |-> done,
     info |-> info]

Returned(v) == [raised |-> FALSE, value |-> v]

NoReturn == [raised |-> FALSE, value |-> None]

\* return TurnUpdate(observation=obs, ...), obs being what self.observation()
\* returned; when it raised, the exception is apply's.
UpdateOf(g, obs, reward, done, info) ==
    [game |-> g,
     ret |-> IF obs.raised THEN obs ELSE TurnUpdate(obs.value, reward, done, info)]

Has(d, k) == k \in DOMAIN d

\* dict.get(key, default)
Get(d, k, default) == IF k \in DOMAIN d THEN d[k] ELSE default

\* d[k] += v
AddTo(d, k, v) == [d EXCEPT ![k] = @ + v]


\* The str literals of the engines.
HIT == <<"h", "i", "t">>

STAND == <<"s", "t", "a", "n", "d">>

CHECK == <<"c", "h", "e", "c", "k">>

BET == <<"b", "e", "t">>

CALL == <<"c", "a", "l", "l">>

FOLD == <<"f", "o", "l", "d">>

HIDDEN == <<"h", "i", "d", "d", "e", "n">>

\* str(n) for n >= 0
RECURSIVE StrOfNat(_)
StrOfNat(n) ==
    IF n < 10 THEN <<DecimalDigits[n + 1]>>
    ELSE Append(StrOfNat(n \div 10), DecimalDigits[(n % 10) + 1])

(***************************************************************************)
(* TicTacToeGame (bench/games/tic_tac_toe/engine.py)                       *)
(***************************************************************************)
TTTDefaultPlayers == <<"player_x", "player_o">>

TTTWinReward == 10

TTTLossPenalty == -10

TTTInvalidPenalty == -5

SYMBOLS == [p \in {"player_x", "player_o"} |-> IF p = "player_x" THEN "X" ELSE "O"]

\* The instance as the dataclass constructs it: no board, no scores yet.
TTTNew(players) ==
    [kind |-> "tic_tac_toe", players |-> players, board |-> <<>>,
     current_index |-> 0, winner |-> None, terminal |-> FALSE,
     scores |-> EmptyDict, turn_count |-> 0]

\* A reset that leaves the turn pointer where the last match left it.
TTTResetKeepsTurn(g) ==
    [g EXCEPT !.board = [i \in 1..9 |-> " "],
              !.winner = None,
              !.terminal = FALSE,
              !.turn_count = 0,
              !.scores = [p \in Range(g.players) |-> 0]]

TTTReset(g) ==
    [g EXCEPT !.board = [i \in 1..9 |-> " "],
              !.current_index = 0,
              !.winner = None,
              !.terminal = FALSE,
              !.turn_count = 0,
              !.scores = [p \in Range(g.players) |-> 0]]

TTTCurrentPlayer(g) == g.players[g.current_index + 1]

TTTOpponent(g, player_id) ==
    IF \E i \in DOMAIN g.players : g.players[i] # player_id
    THEN g.players[CHOOSE i \in DOMAIN g.players :
                       /\ g.players[i] # player_id
                       /\ \A j \in 1..(i - 1) : g.players[j] = player_id]
    ELSE player_id

TTTRenderBoard(g, player_id) ==
    <<"Tic-Tac-Toe", SYMBOLS[player_id], g.board, g.turn_count,
      IF g.terminal THEN "Game over." ELSE "Awaiting moves.">>

TTTObservation(g, player_id) ==
    IF player_id \notin DOMAIN SYMBOLS \/ TTTOpponent(g, player_id) \notin DOMAIN SYMBOLS
    THEN Raise("KeyError")
    ELSE Returned([text |-> TTTRenderBoard(g, player_id),
                   board |-> g.board,
                   your_symbol |-> SYMBOLS[player_id],
                   opponent_symbol |-> SYMBOLS[TTTOpponent(g, player_id)],
                   turn_count |-> g.turn_count,
                   is_terminal |-> g.terminal])

\* The empty cells, as "1".."9", in board order.
RECURSIVE TTTEmptyCells(_, _)
TTTEmptyCells(board, index) ==
    IF index >= Len(board) THEN <<>>
    ELSE IF board[index + 1] = " "
         THEN <<StrOfNat(index + 1)>> \o TTTEmptyCells(board, index + 1)
         ELSE TTTEmptyCells(board, index + 1)

\* Legal actions that list every cell, empty or not.
TTTLegalActionsAllCells(g, player_id) ==
    IF g.terminal \/ player_id # TTTCurrentPlayer(g)
    THEN <<>>
    ELSE [i \in 1..9 |-> StrOfNat(i)]

TTTLegalActions(g, player_id) ==
    IF g.terminal \/ player_id # TTTCurrentPlayer(g)
    THEN <<>>
    ELSE TTTEmptyCells(g.board, 0)

\* The first token that is a digit string with value 1..9, less one; <<>> for
\* None; int() raises on a digit string that is not decimal.
RECURSIVE TTTFirstMove(_)
TTTFirstMove(tokens) ==
    IF tokens = <<>> THEN Returned(<<>>)
    ELSE IF IsDigit(Head(tokens))
         THEN IF IntRaises(Head(tokens)) THEN Raise("ValueError")
              ELSE IF 1 <= IntValue(Head(tokens)) /\ IntValue(Head(tokens)) <= 9
                   THEN Returned(<<IntValue(Head(tokens)) - 1>>)
                   ELSE TTTFirstMove(Tail(tokens))
         ELSE TTTFirstMove(Tail(tokens))

TTTParseMove(command) ==
    LET text == StrLower(StrStrip(command)) IN
    IF text = <<>> THEN Returned(<<>>)
    ELSE TTTFirstMove(StrSplit(StrReplace(text, "-", " ")))

\* The commands callers submit to tic-tac-toe: the nine cells, a number out of
\* range, a coordinate with a dash, and a digit that is not decimal.
Cell(n) == StrOfNat(n)

TTTCommands ==
    {Cell(n) : n \in 1..9}
    \cup {<<"p", "l", "a", "c", "e", " ", "4", "2">>,
          <<" ", "B", "-", "2", " ">>,
          <<"sup2">>}

\* _parse_move computed once for each of these commands.
TTTParsed == [command \in TTTCommands |-> TTTParseMove(command)]

\* self._parse_move(command), as apply calls it.
TTTMove(command) ==
    IF command \in DOMAIN TTTParsed THEN TTTParsed[command] ELSE TTTParseMove(command)

TTTWinIndices ==
    {<<0, 1, 2>>, <<3, 4, 5>>, <<6, 7, 8>>, <<0, 3, 6>>,
     <<1, 4, 7>>, <<2, 5, 8>>, <<0, 4, 8>>, <<2, 4, 6>>}

\* A win detection that misses the two diagonals.
TTTCheckWinNoDiagonals(board, symbol) ==
    \E line \in {l \in TTTWinIndices : l[2] # 4 \/ l[1] \in {1, 3}} :
        \A k \in 1..3 : board[line[k] + 1] = symbol

TTTCheckWin(board, symbol) ==
    \E line \in TTTWinIndices : \A k \in 1..3 : board[line[k] + 1] = symbol

\* An advance that leaves the turn where it is.
TTTAdvanceStays(g) == g

TTTAdvancePlayer(g) ==
    [g EXCEPT !.current_index = (g.current_index + 1) % Len(g.players)]

\* TurnUpdate(observation=self.observation(player_id), ...): the observation is
\* built after the state was changed, and its exception is apply's.
TTTUpdate(g, player_id, reward, done, info) ==
    UpdateOf(g, TTTObservation(g, player_id), reward, done, info)

\* A rejection that also passes the turn on.
TTTRejectedPassesTurn(g, player_id, reason) ==
    IF player_id \notin DOMAIN g.scores
    THEN [game |-> g, ret |-> Raise("KeyError")]
    ELSE LET g2 == TTTAdvancePlayer(
                     [g EXCEPT !.scores = AddTo(g.scores, player_id, TTTInvalidPenalty)])
         IN TTTUpdate(g2, player_id, TTTInvalidPenalty, FALSE,
                      [invalid |-> TRUE, reason |-> reason,
                       legal_moves |-> TTTLegalActions(g2, TTTCurrentPlayer(g2))])

\* A rejection that also ends the match.
TTTRejectedEndsMatch(g, player_id, reason) ==
    IF player_id \notin DOMAIN g.scores
    THEN [game |-> g, ret |-> Raise("KeyError")]
    ELSE LET g2 == [g EXCEPT !.scores = AddTo(g.scores, player_id, TTTInvalidPenalty),
                             !.terminal = TRUE] IN
         TTTUpdate(g2, player_id, TTTInvalidPenalty, FALSE,
                   [invalid |-> TRUE, reason |-> reason,
                    legal_moves |-> TTTLegalActions(g2, TTTCurrentPlayer(g2))])

\* The two rejections of apply: the penalty is charged, then the update built.
TTTRejected(g, player_id, reason) ==
    IF player_id \notin DOMAIN g.scores
    THEN [game |-> g, ret |-> Raise("KeyError")]
    ELSE LET g2 == [g EXCEPT !.scores = AddTo(g.scores, player_id, TTTInvalidPenalty)] IN
         TTTUpdate(g2, player_id, TTTInvalidPenalty, FALSE,
                   [invalid |-> TRUE, reason |-> reason,
                    legal_moves |-> TTTLegalActions(g2, TTTCurrentPlayer(g2))])

\* A win that is not charged to the loser.
TTTAwardWinnerOnly(scores, player_id, opponent) ==
    AddTo(scores, player_id, TTTWinReward)

\* self._scores[player_id] += win_reward; self._scores[opponent] += loss_penalty
TTTAward(scores, player_id, opponent) ==
    AddTo(AddTo(scores, player_id, TTTWinReward), opponent, TTTLossPenalty)

\* An apply on a finished match that charges the caller the invalid penalty.
TTTAlreadyFinishedCharges(g, player_id) ==
    TTTUpdate([g EXCEPT !.scores = AddTo(g.scores, player_id, TTTInvalidPenalty)],
              player_id, 0, TRUE, [reason |-> "match_already_finished"])

\* if self._terminal: return TurnUpdate(..., reward=0.0, done=True, ...)
TTTAlreadyFinished(g, player_id) ==
    TTTUpdate(g, player_id, 0, TRUE, [reason |-> "match_already_finished"])

TTTPlace(g, player_id, move_index) ==
    LET symbol == SYMBOLS[player_id]
        placed == [g EXCEPT !.board[move_index + 1] = symbol,
                            !.turn_count = g.turn_count + 1]
    IN
    IF TTTCheckWin(placed.board, symbol)
    THEN LET opponent == TTTOpponent(placed, player_id)
             won == [placed EXCEPT
                       !.terminal = TRUE,
                       !.winner = player_id,
                       !.scores = TTTAward(placed.scores, player_id, opponent)]
         IN TTTUpdate(won, player_id, TTTWinReward, TRUE,
                      [outcome |-> "win", winner |-> player_id,
                       final_board |-> won.board])
    ELSE IF \A i \in DOMAIN placed.board : placed.board[i] # " "
    THEN LET drawn == [placed EXCEPT !.terminal = TRUE, !.winner = None] IN
         TTTUpdate(drawn, player_id, 0, TRUE,
                   [outcome |-> "draw", winner |-> None, final_board |-> drawn.board])
    ELSE LET next == TTTAdvancePlayer(placed) IN
         TTTUpdate(next, player_id, 0, FALSE,
                   [outcome |-> "ongoing",
                    legal_moves |-> TTTLegalActions(next, TTTCurrentPlayer(next))])

\* The statements of apply after move_index = self._parse_move(command).
TTTApplyMove(g, player_id, move) ==
    IF move.raised THEN [game |-> g, ret |-> move]
    ELSE IF move.value = <<>>
    THEN TTTRejected(g, player_id, "illegal_move")
    ELSE IF move.value[1] >= Len(g.board)
    THEN [game |-> g, ret |-> Raise("IndexError")]
    ELSE IF g.board[move.value[1] + 1] # " "
    THEN TTTRejected(g, player_id, "illegal_move")
    ELSE IF player_id \notin DOMAIN SYMBOLS
    THEN [game |-> g, ret |-> Raise("KeyError")]
    ELSE TTTPlace(g, player_id, move.value[1])

TTTApply(g, player_id, command) ==
    IF g.terminal
    THEN TTTAlreadyFinished(g, player_id)
    ELSE IF player_id # TTTCurrentPlayer(g)
    THEN TTTRejected(g, player_id, "out_of_turn")
    ELSE TTTApplyMove(g, player_id, TTTMove(command))

TTTFinalScores(g) == g.scores

TTTStatus(g) ==
    [winner |-> g.winner, board |-> g.board, turns |-> g.turn_count,
     terminal |-> g.terminal]

(***************************************************************************)
(* Blackjack helpers (bench/games/blackjack/utils.py)                      *)
(***************************************************************************)
CARD_VALUES == <<1, 2, 3, 4, 5, 6, 7, 8, 9, 10, 10, 10, 10>>

create_deck == CARD_VALUES \o CARD_VALUES \o CARD_VALUES \o CARD_VALUES

RECURSIVE SumSeq(_)
SumSeq(s) == IF s = <<>> THEN 0 ELSE Head(s) + SumSeq(Tail(s))

\* A loop that stops short of 21.
RECURSIVE SoftTotalBelow21(_, _)
SoftTotalBelow21(total, aces) ==
    IF aces > 0 /\ total + 10 < 21 THEN SoftTotalBelow21(total + 10, aces - 1) ELSE total

\* while aces > 0 and total + 10 <= 21: total += 10; aces -= 1
RECURSIVE SoftTotal(_, _)
SoftTotal(total, aces) ==
    IF aces > 0 /\ total + 10 <= 21 THEN SoftTotal(total + 10, aces - 1) ELSE total

hand_value(cards) ==
    SoftTotal(SumSeq(cards), Cardinality({i \in DOMAIN cards : cards[i] = 1}))

card_label(card) ==
    IF card = 1 THEN <<"A", "c", "e">> ELSE StrOfNat(card)

(***************************************************************************)
(* random.Random(seed).shuffle(create_deck()), as CPython computes it for  *)
(* the seeds the model draws from.                                         *)
(***************************************************************************)
BJSeeds == {42, 17, 5, 35}

BJShuffle(seed) ==
    CASE seed = 42 ->
           <<10, 10, 10, 4, 9, 10, 4, 1, 7, 10, 8, 10, 8, 4, 6, 5, 5, 3, 10, 1,
             10, 1, 6, 6, 4, 10, 10, 10, 5, 8, 10, 10, 10, 7, 7, 1, 3, 10, 3, 2,
             10, 6, 9, 7, 9, 2, 3, 5, 9, 2, 8, 2>>
      [] seed = 17 ->
           <<10, 2, 4, 1, 8, 9, 1, 6, 3, 10, 10, 6, 3, 10, 2, 1, 10, 3, 6, 10,
             10, 2, 9, 10, 5, 10, 5, 7, 10, 10, 5, 4, 9, 10, 8, 7, 4, 10, 10, 3,
             2, 8, 5, 4, 9, 7, 10, 6, 10, 7, 1, 8>>
      [] seed = 5 ->
           <<10, 6, 10, 10, 5, 2, 10, 10, 10, 10, 10, 10, 2, 7, 3, 6, 5, 9, 2, 8,
             7, 5, 3, 1, 10, 9, 6, 9, 1, 7, 10, 1, 10, 7, 10, 4, 5, 10, 8, 10,
             4, 8, 3, 4, 2, 8, 3, 6, 10, 9, 4, 1>>
      [] seed = 35 ->
           <<10, 10, 6, 2, 2, 10, 3, 4, 6, 5, 1, 5, 8, 10, 7, 10, 7, 6, 3, 10,
             8, 1, 2, 4, 8, 10, 1, 5, 10, 3, 10, 3, 9, 7, 1, 10, 7, 10, 5, 8,
             4, 10, 4, 2, 6, 10, 10, 9, 9, 10, 9, 10>>

\* list.pop(): the last element, and the list without it.
Last(s) == s[Len(s)]

ButLast(s) == SubSeq(s, 1, Len(s) - 1)

(***************************************************************************)
(* BlackjackGame (bench/games/blackjack/engine.py)                         *)
(***************************************************************************)
BJDefaultPlayers == <<"player_one", "player_two">>

BJWinReward == 10

BJPushReward == 1

BJLosePenalty == -10

BJBustPenalty == -15

BJInvalidPenalty == -20

BlackjackPlayerState(hand) ==
    [hand |-> hand, done |-> FALSE, outcome |-> None, stood |-> FALSE]

BJNew(players, seed) ==
    [kind |-> "blackjack",
     players |-> IF players = <<>> THEN BJDefaultPlayers ELSE players,
     seed |-> seed, scores |-> EmptyDict, player_states |-> EmptyDict,
     deck |-> <<>>, dealer_hand |-> <<>>, current_index |-> 0,
     terminal |-> FALSE, dealer_resolved |-> FALSE]

\* for player in self.players: hand = [deck.pop(), deck.pop()]
RECURSIVE BJDeal(_, _, _)
BJDeal(players, deck, states) ==
    IF players = <<>> THEN [deck |-> deck, states |-> states]
    ELSE BJDeal(Tail(players), SubSeq(deck, 1, Len(deck) - 2),
                [p \in DOMAIN states \cup {Head(players)} |->
                    IF p = Head(players)
                    THEN BlackjackPlayerState(<<deck[Len(deck)], deck[Len(deck) - 1]>>)
                    ELSE states[p]])

\* The seed of random.Random(self._seed): an instance keeps its seed as a set,
\* {} for None, and entropy is what the generator then takes from the system.
SeedOf(g, entropy) == IF g.seed = {} THEN entropy ELSE CHOOSE x \in g.seed : TRUE

BJReset(g, entropy) ==
    LET shuffled == BJShuffle(SeedOf(g, entropy))
        dealt == BJDeal(g.players, shuffled, EmptyDict)
        deck == dealt.deck
    IN [g EXCEPT !.scores = [p \in Range(g.players) |-> 0],
                 !.player_states = dealt.states,
                 !.dealer_hand = <<deck[Len(deck)], deck[Len(deck) - 1]>>,
                 !.deck = SubSeq(deck, 1, Len(deck) - 2),
                 !.current_index = 0,
                 !.terminal = FALSE,
                 !.dealer_resolved = FALSE]

\* The first index at or after current_index, cyclically, of a player that is
\* not done; 0 when all are done. Reads _player_states[player]: KeyError
\* before the first reset.
BJEnsureRaises(g) ==
    /\ ~g.terminal
    /\ \E i \in DOMAIN g.players : g.players[i] \notin DOMAIN g.player_states

BJEnsureCurrentIndex(g) ==
    IF g.terminal THEN g
    ELSE LET n == Len(g.players)
             open == {offset \in 0..(n - 1) :
                        ~g.player_states[g.players[((g.current_index + offset) % n) + 1]].done}
         IN IF open = {}
            THEN [g EXCEPT !.current_index = 0]
            ELSE LET first == CHOOSE o \in open : \A o2 \in open : o <= o2
                 IN [g EXCEPT !.current_index = (g.current_index + first) % n]

\* A current_player that hands the turn back to the first seat.
BJCurrentPlayerFromFirstSeat(g) ==
    IF BJEnsureRaises(g) THEN [game |-> g, ret |-> Raise("KeyError")]
    ELSE LET g2 == IF g.terminal THEN g ELSE [g EXCEPT !.current_index = 0]
         IN [game |-> g2, ret |-> Returned(g2.players[g2.current_index + 1])]

\* current_player() returns the actor and leaves the re-derived index behind.
BJCurrentPlayer(g) ==
    IF BJEnsureRaises(g) THEN [game |-> g, ret |-> Raise("KeyError")]
    ELSE LET g2 == BJEnsureCurrentIndex(g)
         IN [game |-> g2, ret |-> Returned(g2.players[g2.current_index + 1])]

\* Legal actions that also offer a double.
BJLegalActionsWithDouble(g, player_id) ==
    IF g.terminal THEN <<>>
    ELSE IF g.player_states[player_id].done THEN <<>>
    ELSE <<HIT, STAND, <<"d", "o", "u", "b", "l", "e">>>>

BJLegalActions(g, player_id) ==
    IF g.terminal THEN <<>>
    ELSE IF g.player_states[player_id].done THEN <<>>
    ELSE <<HIT, STAND>>

BJLabels(cards) == [i \in DOMAIN cards |-> card_label(cards[i])]

\* A text that always ends with the dealer's total.
BJRenderTextWithTotal(g, player_id, reveal_dealer) ==
    LET state == g.player_states[player_id] IN
    <<"Blackjack Match",
      <<"Your hand", BJLabels(state.hand), hand_value(state.hand)>>,
      <<"Dealer", IF reveal_dealer THEN BJLabels(g.dealer_hand)
                  ELSE <<card_label(g.dealer_hand[1]), HIDDEN>>>>,
      [outcome |-> state.outcome,
       legal_moves |-> IF state.outcome # None THEN <<>>
                       ELSE BJLegalActions(g, player_id)],
      <<hand_value(g.dealer_hand)>>
    >>

BJRenderText(g, player_id, reveal_dealer) ==
    LET state == g.player_states[player_id] IN
    <<"Blackjack Match",
      <<"Your hand", BJLabels(state.hand), hand_value(state.hand)>>,
      <<"Dealer", IF reveal_dealer THEN BJLabels(g.dealer_hand)
                  ELSE <<card_label(g.dealer_hand[1]), HIDDEN>>>>,
      [outcome |-> state.outcome,
       legal_moves |-> IF state.outcome # None THEN <<>>
                       ELSE BJLegalActions(g, player_id)],
      IF reveal_dealer THEN <<hand_value(g.dealer_hand)>> ELSE <<>>
    >>

BJObservation(g, player_id) ==
    IF player_id \notin DOMAIN g.player_states THEN Raise("KeyError")
    ELSE LET state == g.player_states[player_id]
             reveal_dealer == g.dealer_resolved \/ g.terminal
         IN Returned(
              [text |-> BJRenderText(g, player_id, reveal_dealer),
               hand |-> state.hand,
               hand_total |-> hand_value(state.hand),
               dealer_cards |-> IF reveal_dealer THEN BJLabels(g.dealer_hand)
                                ELSE <<card_label(g.dealer_hand[1]), HIDDEN>>,
               dealer_total |-> IF reveal_dealer
                                THEN [total |-> <<hand_value(g.dealer_hand)>>,
                                      label |-> <<>>]
                                ELSE [total |-> <<>>,
                                      label |-> card_label(g.dealer_hand[1])],
               outcome |-> state.outcome,
               is_terminal |-> g.terminal,
               legal_moves |-> BJLegalActions(g, player_id)])

BJUpdate(g, player_id, reward, done, info) ==
    UpdateOf(g, BJObservation(g, player_id), reward, done, info)

\* An advance that does not step past the mover.
BJAdvanceTurnStays(g) == BJEnsureCurrentIndex(g)

BJAdvanceTurn(g) ==
    BJEnsureCurrentIndex(
        [g EXCEPT !.current_index = (g.current_index + 1) % Len(g.players)])

\* A dealer that still draws on 17.
RECURSIVE BJDealerHitsOn17(_)
BJDealerHitsOn17(g) ==
    IF hand_value(g.dealer_hand) < 18 /\ g.deck # <<>>
    THEN BJDealerHitsOn17([g EXCEPT !.dealer_hand = Append(g.dealer_hand, Last(g.deck)),
                                    !.deck = ButLast(g.deck)])
    ELSE g

\* while hand_value(self._dealer_hand) < 17: append(self._deck.pop())
RECURSIVE BJDealerDraw(_)
BJDealerDraw(g) ==
    IF hand_value(g.dealer_hand) < 17 /\ g.deck # <<>>
    THEN BJDealerDraw([g EXCEPT !.dealer_hand = Append(g.dealer_hand, Last(g.deck)),
                                !.deck = ButLast(g.deck)])
    ELSE g

BJOutcomeAgainst(player_total, dealer_total) ==
    IF dealer_total > 21 \/ player_total > dealer_total THEN "win"
    ELSE IF player_total = dealer_total THEN "push"
    ELSE "lose"

BJOutcomeReward(outcome) ==
    CASE outcome = "win" -> BJWinReward
      [] outcome = "push" -> BJPushReward
      [] outcome = "lose" -> BJLosePenalty

\* A resolution that compares bust actors against the dealer as well.
BJResolveDealerBustToo(g) ==
    LET drawn == BJDealerDraw(g)
        dealer_total == hand_value(drawn.dealer_hand)
        live(p) == drawn.player_states[p].outcome # "invalid"
        result(p) == BJOutcomeAgainst(hand_value(drawn.player_states[p].hand), dealer_total)
    IN [drawn EXCEPT
          !.player_states = [p \in DOMAIN drawn.player_states |->
               IF live(p) THEN [drawn.player_states[p] EXCEPT !.outcome = result(p)]
               ELSE drawn.player_states[p]],
          !.scores = [p \in DOMAIN drawn.scores |->
               IF live(p) THEN drawn.scores[p] + BJOutcomeReward(result(p))
               ELSE drawn.scores[p]],
          !.dealer_resolved = TRUE]

BJResolveDealer(g) ==
    LET drawn == BJDealerDraw(g)
        dealer_total == hand_value(drawn.dealer_hand)
        live(p) == drawn.player_states[p].outcome \notin {"bust", "invalid"}
        result(p) == BJOutcomeAgainst(hand_value(drawn.player_states[p].hand), dealer_total)
    IN [drawn EXCEPT
          !.player_states = [p \in DOMAIN drawn.player_states |->
               IF live(p) THEN [drawn.player_states[p] EXCEPT !.outcome = result(p)]
               ELSE drawn.player_states[p]],
          !.scores = [p \in DOMAIN drawn.scores |->
               IF live(p) THEN drawn.scores[p] + BJOutcomeReward(result(p))
               ELSE drawn.scores[p]],
          !.dealer_resolved = TRUE]

\* The dealer's loop pops from an empty deck: IndexError.
BJResolveRaises(g) ==
    /\ ~g.terminal
    /\ \A p \in DOMAIN g.player_states : g.player_states[p].done
    /\ ~g.dealer_resolved
    /\ hand_value(BJDealerDraw(g).dealer_hand) < 17

BJMaybeResolveMatch(g) ==
    IF g.terminal THEN g
    ELSE IF \E p \in DOMAIN g.player_states : ~g.player_states[p].done
    THEN BJAdvanceTurn(g)
    ELSE [(IF g.dealer_resolved THEN g ELSE BJResolveDealer(g)) EXCEPT !.terminal = TRUE]

\* The three branches of the command: what they do to the player and the
\* score, and the info they start.
\* An illegal command that is charged but leaves the actor in the round.
BJIllegalStaysIn(g, player_id) ==
    [game |-> [g EXCEPT !.player_states[player_id].outcome = "invalid",
                        !.scores = AddTo(g.scores, player_id, BJInvalidPenalty)],
     info |-> [invalid |-> TRUE, reason |-> "illegal_command"]]

BJIllegal(g, player_id) ==
    [game |-> [g EXCEPT !.player_states[player_id].done = TRUE,
                        !.player_states[player_id].outcome = "invalid",
                        !.scores = AddTo(g.scores, player_id, BJInvalidPenalty)],
     info |-> [invalid |-> TRUE, reason |-> "illegal_command"]]

BJHit(g, player_id) ==
    LET card == Last(g.deck)
        hand == Append(g.player_states[player_id].hand, card)
        drawn == [g EXCEPT !.deck = ButLast(g.deck),
                           !.player_states[player_id].hand = hand]
    IN IF hand_value(hand) > 21
       THEN [game |-> [drawn EXCEPT
                         !.player_states[player_id].done = TRUE,
                         !.player_states[player_id].outcome = "bust",
                         !.scores = AddTo(drawn.scores, player_id, BJBustPenalty)],
             info |-> [outcome |-> "bust", drawn_card |-> card_label(card)]]
       ELSE [game |-> drawn,
             info |-> [action |-> "hit", drawn_card |-> card_label(card)]]

\* A stand that leaves the actor in the round.
BJStandStaysIn(g, player_id) ==
    [game |-> [g EXCEPT !.player_states[player_id].stood = TRUE],
     info |-> [action |-> "stand"]]

BJStand(g, player_id) ==
    [game |-> [g EXCEPT !.player_states[player_id].done = TRUE,
                        !.player_states[player_id].stood = TRUE],
     info |-> [action |-> "stand"]]

\* {**info, "outcome": ..., "scores": ...}
Merge(d, e) ==
    [k \in DOMAIN d \cup DOMAIN e |-> IF k \in DOMAIN e THEN e[k] ELSE d[k]]

\* The update apply returns, the match resolved or the turn passed on.
BJSettled(r, player_id, starting_score, info) ==
    BJUpdate(r, player_id, r.scores[player_id] - starting_score, r.terminal,
             Merge(info, [outcome |-> r.player_states[player_id].outcome,
                          scores |-> r.scores]))

\* self._maybe_resolve_match() after the command was carried out, and the return.
BJAfterStep(step, player_id, starting_score) ==
    IF BJResolveRaises(step.game)
    THEN [game |-> BJDealerDraw(step.game), ret |-> Raise("IndexError")]
    ELSE BJSettled(BJMaybeResolveMatch(step.game), player_id, starting_score, step.info)

\* The statements of apply after self._ensure_current_index().
BJApplyEnsured(e, player_id, command) ==
    IF player_id # e.players[e.current_index + 1]
    THEN BJUpdate(e, player_id, BJInvalidPenalty, FALSE,
                  [invalid |-> TRUE, reason |-> "out_of_turn",
                   legal_moves |-> BJLegalActions(e, e.players[e.current_index + 1])])
    ELSE IF e.player_states[player_id].done
    THEN BJUpdate(e, player_id, 0, e.terminal, [reason |-> "player_already_finished"])
    ELSE LET normalized == StrLower(StrStrip(command))
             starting_score == e.scores[player_id]
         IN
         IF normalized = HIT /\ e.deck = <<>>
         THEN [game |-> e, ret |-> Raise("IndexError")]
         ELSE BJAfterStep(IF normalized \notin {HIT, STAND}
                          THEN BJIllegal(e, player_id)
                          ELSE IF normalized = HIT
                          THEN BJHit(e, player_id)
                          ELSE BJStand(e, player_id),
                          player_id, starting_score)

BJApply(g, player_id, command) ==
    IF g.terminal
    THEN BJUpdate(g, player_id, 0, TRUE, [reason |-> "match_already_finished"])
    ELSE IF BJEnsureRaises(g) THEN [game |-> g, ret |-> Raise("KeyError")]
    ELSE BJApplyEnsured(BJEnsureCurrentIndex(g), player_id, command)

BJFinalScores(g) == g.scores

BJStatus(g) ==
    [dealer_hand |-> BJLabels(g.dealer_hand),
     dealer_total |-> hand_value(g.dealer_hand),
     player_outcomes |-> [p \in DOMAIN g.player_states |-> g.player_states[p].outcome],
     terminal |-> g.terminal]

(***************************************************************************)
(* Poker cards and hand ranking (bench/games/poker/cards.py).  A card is   *)
(* <<rank, suit>>; the suits are written s, h, d, c.                       *)
(***************************************************************************)
RANKS == <<"2", "3", "4", "5", "6", "7", "8", "9", "T", "J", "Q", "K", "A">>

SUITS == <<"s", "h", "d", "c">>

RANK_VALUES == [r \in Range(RANKS) |-> IndexOf(RANKS, r) - 1 + 2]

build_deck ==
    [i \in 1..(Len(RANKS) * Len(SUITS)) |->
        <<RANKS[((i - 1) \div Len(SUITS)) + 1], SUITS[((i - 1) % Len(SUITS)) + 1]>>]

\* A table that offers the same moves whether a bet is pending or not.
LegalMovesIgnoringBet(stage, awaiting_call) ==
    IF stage \in {"showdown", "finished"} THEN <<>>
    ELSE <<CHECK, BET, FOLD>>

legal_moves_for_stage(stage, awaiting_call) ==
    IF stage \in {"showdown", "finished"} THEN <<>>
    ELSE IF awaiting_call THEN <<CALL, FOLD>>
    ELSE <<CHECK, BET, FOLD>>

stage_label(stage) ==
    CASE stage = "preflop" -> "Pre-flop"
      [] stage = "flop" -> "Flop"
      [] stage = "turn" -> "Turn"
      [] stage = "river" -> "River"
      [] stage = "showdown" -> "Showdown"
      [] stage = "finished" -> "Hand Complete"

\* sorted(xs, reverse=True) on integers
RECURSIVE SortedDesc(_)
SortedDesc(xs) ==
    IF xs = <<>> THEN <<>>
    ELSE LET i == CHOOSE i \in DOMAIN xs : \A j \in DOMAIN xs : xs[i] >= xs[j]
         IN <<xs[i]>> \o SortedDesc(SubSeq(xs, 1, i - 1) \o SubSeq(xs, i + 1, Len(xs)))

\* The elements of a set of integers, descending.
RECURSIVE SetDesc(_)
SetDesc(S) ==
    IF S = {} THEN <<>>
    ELSE LET m == CHOOSE m \in S : \A x \in S : m >= x
         IN <<m>> \o SetDesc(S \ {m})

SetMax(S) == CHOOSE m \in S : \A x \in S : m >= x

SetMin(S) == CHOOSE m \in S : \A x \in S : m <= x

\* Python's order on tuples of integers.
RECURSIVE TupleGreater(_, _)
TupleGreater(a, b) ==
    IF a = <<>> THEN FALSE
    ELSE IF b = <<>> THEN TRUE
    ELSE IF Head(a) # Head(b) THEN Head(a) > Head(b)
    ELSE TupleGreater(Tail(a), Tail(b))

\* Python's order on (category, tiebreak) pairs.
RankGreater(r1, r2) ==
    \/ r1[1] > r2[1]
    \/ r1[1] = r2[1] /\ TupleGreater(r1[2], r2[2])

\* A ranking that counts the ace of A-2-3-4-5 as the high card of the straight.
HandRankAceHighWheel(values, suits) ==
    LET unique_values == Range(values)
        count(v) == Cardinality({i \in DOMAIN values : values[i] = v})
        counts == {count(v) : v \in unique_values}
        with(c) == {v \in unique_values : count(v) = c}
        is_flush == Cardinality(suits) = 1
        is_wheel == unique_values = {2, 3, 4, 5, 14}
        is_straight ==
            /\ Cardinality(unique_values) = 5
            /\ (SetMax(unique_values) - SetMin(unique_values) = 4 \/ is_wheel)
        straight_high == SetMax(unique_values)
        \* the values of the pairs, in the order of ordered_counts
        pairs == SetDesc(with(2))
    IN
    IF is_straight /\ is_flush THEN <<8, <<straight_high>>>>
    ELSE IF 4 \in counts
    THEN <<7, <<SetMax(with(4)), SetMax(with(1))>>>>
    ELSE IF with(3) # {} /\ with(2) # {} /\ Cardinality(unique_values) = 2
    THEN <<6, <<SetMax(with(3)), SetMax(with(2))>>>>
    ELSE IF is_flush THEN <<5, values>>
    ELSE IF is_straight THEN <<4, <<straight_high>>>>
    ELSE IF 3 \in counts
    THEN <<3, <<SetMax(with(3))>> \o SetDesc(with(1))>>
    ELSE IF Len(pairs) = 2
    THEN <<2, <<pairs[1], pairs[2], SetMax(with(1))>>>>
    ELSE IF 2 \in counts
    THEN <<1, <<pairs[1]>> \o SetDesc(with(1))>>
    ELSE <<0, values>>

\* The rank of a hand with these values (sorted, greatest first) and suits.
hand_rank_of(values, suits) ==
    LET unique_values == Range(values)
        count(v) == Cardinality({i \in DOMAIN values : values[i] = v})
        counts == {count(v) : v \in unique_values}
        with(c) == {v \in unique_values : count(v) = c}
        is_flush == Cardinality(suits) = 1
        is_wheel == unique_values = {2, 3, 4, 5, 14}
        is_straight ==
            /\ Cardinality(unique_values) = 5
            /\ (SetMax(unique_values) - SetMin(unique_values) = 4 \/ is_wheel)
        straight_high == IF is_wheel THEN 5 ELSE SetMax(unique_values)
        \* the values of the pairs, in the order of ordered_counts
        pairs == SetDesc(with(2))
    IN
    IF is_straight /\ is_flush THEN <<8, <<straight_high>>>>
    ELSE IF 4 \in counts
    THEN <<7, <<SetMax(with(4)), SetMax(with(1))>>>>
    ELSE IF with(3) # {} /\ with(2) # {} /\ Cardinality(unique_values) = 2
    THEN <<6, <<SetMax(with(3)), SetMax(with(2))>>>>
    ELSE IF is_flush THEN <<5, values>>
    ELSE IF is_straight THEN <<4, <<straight_high>>>>
    ELSE IF 3 \in counts
    THEN <<3, <<SetMax(with(3))>> \o SetDesc(with(1))>>
    ELSE IF Len(pairs) = 2
    THEN <<2, <<pairs[1], pairs[2], SetMax(with(1))>>>>
    ELSE IF 2 \in counts
    THEN <<1, <<pairs[1]>> \o SetDesc(with(1))>>
    ELSE <<0, values>>

\* A ranking that takes the values in the order of the cards.
HandRankUnsorted(hand) ==
    hand_rank_of([i \in DOMAIN hand |-> RANK_VALUES[hand[i][1]]],
                 {hand[i][2] : i \in DOMAIN hand})

hand_rank(hand) ==
    hand_rank_of(SortedDesc([i \in DOMAIN hand |-> RANK_VALUES[hand[i][1]]]),
                 {hand[i][2] : i \in DOMAIN hand})

\* itertools.combinations(range(from, n), k): index tuples in lexicographic order.
RECURSIVE Combinations(_, _, _)
Combinations(from, n, k) ==
    IF k = 0 THEN <<<<>>>>
    ELSE IF n - from < k THEN <<>>
    ELSE LET withFirst == Combinations(from + 1, n, k - 1)
         IN [i \in DOMAIN withFirst |-> <<from>> \o withFirst[i]]
            \o Combinations(from + 1, n, k)

\* A loop that keeps the first rank it sees.
BetterKeepsFirst(rank, best) ==
    IF best = <<>> THEN <<rank>> ELSE best

\* if best is None or rank > best: best = rank
Better(rank, best) ==
    IF best = <<>> \/ RankGreater(rank, best[1]) THEN <<rank>> ELSE best

\* for combo in combinations(cards, 5): keep rank if it is the first or greater.
RECURSIVE BestOver(_, _, _)
BestOver(cards, combos, best) ==
    IF combos = <<>> THEN best
    ELSE BestOver(cards, Tail(combos),
                  Better(hand_rank([i \in 1..5 |-> cards[Head(combos)[i] + 1]]), best))

\* The best rank found; <<>> stands for the failed assertion on fewer than 5 cards.
Found(best) == IF best = <<>> THEN <<>> ELSE best[1]

best_hand_rank(cards) == Found(BestOver(cards, Combinations(0, Len(cards), 5), <<>>))

(***************************************************************************)
(* random.Random(seed).shuffle(build_deck()), as CPython computes it for   *)
(* the seeds the model draws from.                                         *)
(***************************************************************************)
PokerSeeds == {321, 99, 1, 13}

PokerShuffle(seed) ==
    CASE seed = 321 ->
           <<
             <<"J", "s">>, <<"J", "h">>, <<"4", "h">>, <<"K", "h">>, <<"A", "d">>, <<"A", "c">>,
             <<"A", "s">>, <<"K", "s">>, <<"3", "s">>, <<"K", "d">>, <<"6", "d">>, <<"3", "h">>,
             <<"2", "h">>, <<"6", "c">>, <<"2", "c">>, <<"5", "s">>, <<"T", "d">>, <<"8", "d">>,
             <<"Q", "c">>, <<"A", "h">>, <<"J", "c">>, <<"4", "d">>, <<"K", "c">>, <<"7", "s">>,
             <<"5", "h">>, <<"7", "d">>, <<"4", "c">>, <<"9", "d">>, <<"3", "c">>, <<"T", "h">>,
             <<"3", "d">>, <<"9", "c">>, <<"8", "s">>, <<"2", "d">>, <<"Q", "s">>, <<"6", "s">>,
             <<"T", "s">>, <<"2", "s">>, <<"5", "d">>, <<"Q", "d">>, <<"Q", "h">>, <<"8", "c">>,
             <<"9", "h">>, <<"J", "d">>, <<"5", "c">>, <<"7", "h">>, <<"9", "s">>, <<"T", "c">>,
             <<"7", "c">>, <<"4", "s">>, <<"8", "h">>, <<"6", "h">>>>
      [] seed = 99 ->
           <<
             <<"7", "s">>, <<"T", "c">>, <<"J", "h">>, <<"K", "c">>, <<"6", "h">>, <<"4", "h">>,
             <<"9", "d">>, <<"3", "c">>, <<"Q", "s">>, <<"9", "h">>, <<"8", "c">>, <<"2", "c">>,
             <<"3", "d">>, <<"2", "s">>, <<"6", "c">>, <<"K", "s">>, <<"2", "h">>, <<"J", "s">>,
             <<"A", "c">>, <<"K", "h">>, <<"T", "s">>, <<"9", "s">>, <<"Q", "d">>, <<"7", "d">>,
             <<"2", "d">>, <<"4", "d">>, <<"6", "d">>, <<"A", "s">>, <<"7", "h">>, <<"K", "d">>,
             <<"3", "s">>, <<"J", "c">>, <<"Q", "h">>, <<"7", "c">>, <<"5", "h">>, <<"8", "d">>,
             <<"A", "h">>, <<"9", "c">>, <<"Q", "c">>, <<"T", "d">>, <<"T", "h">>, <<"A", "d">>,
             <<"6", "s">>, <<"3", "h">>, <<"4", "s">>, <<"5", "c">>, <<"5", "d">>, <<"4", "c">>,
             <<"J", "d">>, <<"5", "s">>, <<"8", "s">>, <<"8", "h">>>>
      [] seed = 1 ->
           <<
             <<"A", "h">>, <<"4", "h">>, <<"J", "h">>, <<"7", "d">>, <<"2", "d">>, <<"J", "d">>,
             <<"6", "c">>, <<"4", "c">>, <<"T", "c">>, <<"3", "h">>, <<"9", "h">>, <<"A", "c">>,
             <<"Q", "c">>, <<"5", "c">>, <<"7", "c">>, <<"K", "d">>, <<"K", "c">>, <<"7", "h">>,
             <<"Q", "s">>, <<"J", "c">>, <<"5", "s">>, <<"A", "d">>, <<"T", "s">>, <<"7", "s">>,
             <<"8", "h">>, <<"8", "d">>, <<"T", "d">>, <<"4", "d">>, <<"T", "h">>, <<"2", "c">>,
             <<"6", "d">>, <<"5", "d">>, <<"6", "h">>, <<"K", "s">>, <<"2", "s">>, <<"8", "c">>,
             <<"Q", "d">>, <<"2", "h">>, <<"K", "h">>, <<"3", "d">>, <<"5", "h">>, <<"8", "s">>,
             <<"Q", "h">>, <<"9", "d">>, <<"9", "s">>, <<"9", "c">>, <<"3", "c">>, <<"6", "s">>,
             <<"3", "s">>, <<"A", "s">>, <<"J", "s">>, <<"4", "s">>>>
      [] seed = 13 ->
           <<
             <<"9", "c">>, <<"T", "h">>, <<"A", "c">>, <<"A", "s">>, <<"T", "c">>, <<"2", "c">>,
             <<"7", "s">>, <<"7", "h">>, <<"6", "h">>, <<"J", "h">>, <<"5", "s">>, <<"3", "h">>,
             <<"4", "d">>, <<"3", "d">>, <<"7", "c">>, <<"6", "c">>, <<"7", "d">>, <<"5", "c">>,
             <<"3", "c">>, <<"Q", "s">>, <<"8", "s">>, <<"9", "s">>, <<"J", "s">>, <<"K", "s">>,
             <<"9", "d">>, <<"9", "h">>, <<"8", "h">>, <<"2", "d">>, <<"J", "d">>, <<"8", "d">>,
             <<"T", "s">>, <<"2", "s">>, <<"J", "c">>, <<"8", "c">>, <<"2", "h">>, <<"A", "d">>,
             <<"5", "h">>, <<"T", "d">>, <<"3", "s">>, <<"4", "s">>, <<"K", "c">>, <<"K", "d">>,
             <<"K", "h">>, <<"4", "h">>, <<"Q", "d">>, <<"5", "d">>, <<"Q", "h">>, <<"4", "c">>,
             <<"A", "h">>, <<"Q", "c">>, <<"6", "d">>, <<"6", "s">>>>

(***************************************************************************)
(* HeadsUpPokerGame (bench/games/poker/engine.py)                          *)
(***************************************************************************)
PokerDefaultPlayers == <<"player_button", "player_big_blind">>

PokerBetAmount == 10

PokerWinReward == 10

PokerLossPenalty == -10

PokerSplitReward == 0

PokerInvalidPenalty == -5

PokerFoldPenalty == -10

PokerPlayerState(hand) == [hand |-> hand, folded |-> FALSE]

\* A line of the history: its fixed text, and the values formatted into it.
HistoryLine(text, player, other, command) ==
    [text |-> text, player |-> player, other |-> other, command |-> command]

PokerNew(players, seed) ==
    LET ps == IF players = <<>> THEN PokerDefaultPlayers ELSE players IN
    [kind |-> "poker", players |-> ps, seed |-> seed, button_index |-> 0,
     scores |-> EmptyDict, player_states |-> EmptyDict, deck |-> <<>>,
     board_plan |-> <<>>, board |-> <<>>, stage |-> "preflop",
     stage_actions |-> EmptyDict, awaiting_call |-> FALSE, aggressor |-> None,
     current_player |-> ps[2], terminal |-> FALSE, winner |-> None, pot |-> 0,
     history |-> <<>>]

\* [deck.pop() for _ in range(n)]: the last n cards, last first.
PopMany(deck, n) == [i \in 1..n |-> deck[Len(deck) - i + 1]]

\* The statements of reset after self._rng.shuffle(deck).
PokerDeal(g, deck) ==
    LET afterBoard == SubSeq(deck, 1, Len(deck) - 5)
        hands == [p \in Range(g.players) |->
                    PokerPlayerState(
                        PopMany(SubSeq(afterBoard, 1,
                                       Len(afterBoard) - 2 * (IndexOf(g.players, p) - 1)),
                                2))]
    IN [g EXCEPT !.deck = SubSeq(afterBoard, 1, Len(afterBoard) - 2 * Len(g.players)),
                 !.board_plan = PopMany(deck, 5),
                 !.board = <<>>,
                 !.scores = [p \in Range(g.players) |-> 0],
                 !.player_states = hands,
                 !.stage = "preflop",
                 !.stage_actions = EmptyDict,
                 !.awaiting_call = FALSE,
                 !.aggressor = None,
                 !.terminal = FALSE,
                 !.winner = None,
                 !.pot = 2 * PokerBetAmount,
                 !.history = <<HistoryLine("Blinds posted. Hand begins.", None, None, <<>>)>>,
                 !.current_player = g.players[2]]

\* A reset that shuffles with the generator the last round left behind.
PokerResetKeepsGenerator(g, entropy) ==
    PokerDeal(g, PokerShuffle(IF DOMAIN g.scores # {} THEN 321 ELSE SeedOf(g, entropy)))

\* self._rng = random.Random(self._seed); deck = build_deck(); self._rng.shuffle(deck)
PokerReset(g, entropy) == PokerDeal(g, PokerShuffle(SeedOf(g, entropy)))

PokerCurrentPlayer(g) == g.current_player

PokerOpponent(g, player_id) ==
    IF player_id = g.players[1] THEN g.players[2] ELSE g.players[1]

PokerLegalActions(g, player_id) ==
    IF g.terminal \/ g.player_states[player_id].folded THEN <<>>
    ELSE IF player_id # g.current_player THEN <<>>
    ELSE legal_moves_for_stage(g.stage, g.awaiting_call)

\* A text that prints the opponent's hand during play.
PokerRenderTextOpenHands(g, player_id, legal_moves) ==
    <<"Heads-Up Poker Match",
      stage_label(g.stage),
      g.pot,
      g.board,
      g.player_states[player_id].hand,
      [hidden |-> FALSE, cards |-> g.player_states[PokerOpponent(g, player_id)].hand],
      legal_moves>>

PokerRenderText(g, player_id, legal_moves) ==
    <<"Heads-Up Poker Match",
      stage_label(g.stage),
      g.pot,
      g.board,
      g.player_states[player_id].hand,
      IF g.terminal
      THEN [hidden |-> FALSE, cards |-> g.player_states[PokerOpponent(g, player_id)].hand]
      ELSE [hidden |-> TRUE, cards |-> <<>>],
      legal_moves>>

PokerObservation(g, player_id) ==
    IF player_id \notin DOMAIN g.player_states THEN Raise("KeyError")
    ELSE LET legal_moves == PokerLegalActions(g, player_id) IN
         IF PokerOpponent(g, player_id) \notin DOMAIN g.player_states
         THEN Raise("KeyError")
         ELSE Returned([text |-> PokerRenderText(g, player_id, legal_moves),
                        stage |-> g.stage,
                        pot |-> g.pot,
                        board |-> g.board,
                        hand |-> g.player_states[player_id].hand,
                        legal_moves |-> legal_moves,
                        awaiting_call |-> g.awaiting_call,
                        history |-> g.history,
                        is_terminal |-> g.terminal])

PokerUpdate(g, player_id, reward, done, info) ==
    UpdateOf(g, PokerObservation(g, player_id), reward, done, info)

PokerFirstActorForStage(g, stage) ==
    IF stage = "preflop" THEN g.players[2] ELSE g.players[g.button_index + 1]

\* sorted(ranks.items(), key=rank, reverse=True) is stable: of two actors with
\* the same rank the first in self.players stays first.
\* The seven cards each actor holds at the showdown of a hand dealt from one
\* of the shuffled decks.
PokerDealt(seed) == PokerReset(PokerNew(<<>>, {seed}), seed)

PokerShowdownCards ==
    UNION {{PokerDealt(seed).player_states[p].hand \o PokerDealt(seed).board_plan :
                p \in Range(PokerDefaultPlayers)} : seed \in PokerSeeds}

\* best_hand_rank computed once for each of these.
PokerBestRanks == [cards \in PokerShowdownCards |-> best_hand_rank(cards)]

\* best_hand_rank(cards), as _resolve_showdown calls it.
PokerBestHandRank(cards) ==
    IF cards \in DOMAIN PokerBestRanks THEN PokerBestRanks[cards] ELSE best_hand_rank(cards)

\* The showdown of the hands with these ranks, in the order of self.players
\* (exactly two).
\* A showdown that always pays the actor sorted first, ties included.
PokerShowdownFirstWins(g, ranks) ==
    LET winner == IF RankGreater(ranks[2], ranks[1]) THEN g.players[2] ELSE g.players[1]
        loser == PokerOpponent(g, winner)
    IN [g EXCEPT
          !.scores = AddTo(AddTo(g.scores, winner, PokerWinReward),
                           loser, PokerLossPenalty),
          !.winner = winner,
          !.terminal = TRUE,
          !.history = Append(g.history,
               HistoryLine("Showdown: wins the hand.", winner, None, <<>>))]

PokerShowdown(g, ranks) ==
    LET top == {g.players[i] : i \in {i \in 1..2 :
              \A j \in 1..2 : ~RankGreater(ranks[j], ranks[i])}}
    IN IF Cardinality(top) = 1
       THEN LET winner == CHOOSE p \in top : TRUE
                loser == PokerOpponent(g, winner)
            IN [g EXCEPT
                  !.scores = AddTo(AddTo(g.scores, winner, PokerWinReward),
                                   loser, PokerLossPenalty),
                  !.winner = winner,
                  !.terminal = TRUE,
                  !.history = Append(g.history,
                       HistoryLine("Showdown: wins the hand.", winner, None, <<>>))]
       ELSE [g EXCEPT
               !.scores = [p \in DOMAIN g.scores |->
                             IF p \in top THEN g.scores[p] + PokerSplitReward
                             ELSE g.scores[p]],
               !.winner = None,
               !.terminal = TRUE,
               !.history = Append(g.history,
                    HistoryLine("Showdown: split pot.", None, None, <<>>))]

PokerResolveShowdown(g) ==
    IF g.terminal THEN g
    ELSE LET active == {p \in Range(g.players) : ~g.player_states[p].folded} IN
    IF Cardinality(active) = 1
    THEN LET winner == CHOOSE p \in active : TRUE IN
         [g EXCEPT !.scores = AddTo(g.scores, winner, PokerWinReward),
                   !.winner = winner,
                   !.terminal = TRUE,
                   !.history = Append(g.history,
                        HistoryLine("Showdown skipped: wins by default.", winner, None, <<>>))]
    ELSE PokerShowdown(g,
            <<PokerBestHandRank(g.player_states[g.players[1]].hand \o g.board),
              PokerBestHandRank(g.player_states[g.players[2]].hand \o g.board)>>)

\* A reveal that deals the street from the top of the deck.
PokerRevealFromDeck(g, count, stage, line) ==
    LET need == count - Len(g.board)
        shown == [g EXCEPT !.stage_actions = EmptyDict,
                           !.board = g.board \o PopMany(g.deck, need),
                           !.deck = SubSeq(g.deck, 1, Len(g.deck) - need),
                           !.stage = stage,
                           !.history = Append(g.history, HistoryLine(line, None, None, <<>>))]
    IN [shown EXCEPT !.current_player = PokerFirstActorForStage(shown, stage)]

PokerReveal(g, count, stage, line) ==
    LET shown == [g EXCEPT !.stage_actions = EmptyDict,
                           !.board = SubSeq(g.board_plan, 1, count),
                           !.stage = stage,
                           !.history = Append(g.history, HistoryLine(line, None, None, <<>>))]
    IN [shown EXCEPT !.current_player = PokerFirstActorForStage(shown, stage)]

PokerAdvanceStage(g) ==
    IF g.terminal THEN g
    ELSE CASE g.stage = "preflop" -> PokerReveal(g, 3, "flop", "Flop revealed.")
           [] g.stage = "flop" -> PokerReveal(g, 4, "turn", "Turn card revealed.")
           [] g.stage = "turn" -> PokerReveal(g, 5, "river", "River card revealed.")
           [] g.stage = "river" ->
                PokerResolveShowdown([g EXCEPT !.stage_actions = EmptyDict,
                                               !.stage = "showdown"])
           [] g.stage = "showdown" -> [g EXCEPT !.stage_actions = EmptyDict]
           [] OTHER ->
                LET cleared == [g EXCEPT !.stage_actions = EmptyDict] IN
                [cleared EXCEPT !.current_player = PokerFirstActorForStage(cleared, g.stage)]

\* self._stage_actions[player_id] = action
SetKey(d, k, v) == [x \in DOMAIN d \cup {k} |-> IF x = k THEN v ELSE d[x]]

\* A fold that charges the folder and credits nobody.
PokerFoldNoCredit(g, player_id) ==
    LET opponent == PokerOpponent(g, player_id) IN
    [g EXCEPT !.player_states[player_id].folded = TRUE,
              !.scores = AddTo(g.scores, player_id, PokerFoldPenalty),
              !.winner = opponent,
              !.terminal = TRUE,
              !.history = Append(g.history,
                   HistoryLine("folds. wins the pot.", player_id, opponent, <<>>))]

PokerFold(g, player_id) ==
    LET opponent == PokerOpponent(g, player_id) IN
    [g EXCEPT !.player_states[player_id].folded = TRUE,
              !.scores = AddTo(AddTo(g.scores, player_id, PokerFoldPenalty),
                               opponent, PokerWinReward),
              !.winner = opponent,
              !.terminal = TRUE,
              !.history = Append(g.history,
                   HistoryLine("folds. wins the pot.", player_id, opponent, <<>>))]

PokerBet(g, player_id) ==
    [g EXCEPT !.pot = g.pot + PokerBetAmount,
              !.stage_actions = SetKey(g.stage_actions, player_id, "bet"),
              !.awaiting_call = TRUE,
              !.aggressor = player_id,
              !.history = Append(g.history, HistoryLine("bets one unit.", player_id, None, <<>>)),
              !.current_player = PokerOpponent(g, player_id)]

PokerCall(g, player_id) ==
    PokerAdvanceStage(
        [g EXCEPT !.pot = g.pot + PokerBetAmount,
                  !.stage_actions = SetKey(g.stage_actions, player_id, "call"),
                  !.history = Append(g.history, HistoryLine("calls.", player_id, None, <<>>)),
                  !.awaiting_call = FALSE,
                  !.aggressor = None])

\* A check that closes the stage whoever has acted in it.
PokerCheckAdvances(g, player_id) ==
    PokerAdvanceStage(
        [g EXCEPT
           !.stage_actions = SetKey(g.stage_actions, player_id, "check"),
           !.history = Append(g.history, HistoryLine("checks.", player_id, None, <<>>))])

PokerCheck(g, player_id) ==
    LET checked == [g EXCEPT
                      !.stage_actions = SetKey(g.stage_actions, player_id, "check"),
                      !.history = Append(g.history, HistoryLine("checks.", player_id, None, <<>>))]
    IN IF Cardinality(DOMAIN checked.stage_actions) = Len(g.players)
       THEN PokerAdvanceStage(checked)
       ELSE [checked EXCEPT !.current_player = PokerOpponent(g, player_id)]

\* sorted() on a set of str: by the characters, a proper prefix first.
RECURSIVE StrLess(_, _)
StrLess(a, b) ==
    IF b = <<>> THEN FALSE
    ELSE IF a = <<>> THEN TRUE
    ELSE IF Head(a) # Head(b)
         THEN IndexOf(LowerCase, Head(a)) < IndexOf(LowerCase, Head(b))
         ELSE StrLess(Tail(a), Tail(b))

RECURSIVE SortedStrs(_)
SortedStrs(S) ==
    IF S = {} THEN <<>>
    ELSE LET m == CHOOSE m \in S : \A x \in S : x = m \/ StrLess(m, x)
         IN <<m>> \o SortedStrs(S \ {m})

\* The update apply returns for a legal action, the action carried out.
PokerActed(g2, player_id, starting_score, normalized, info) ==
    PokerUpdate(g2, player_id, g2.scores[player_id] - starting_score, g2.terminal,
                Merge(info, [action |-> normalized, winner |-> g2.winner]))

PokerApply(g, player_id, command) ==
    IF g.terminal
    THEN PokerUpdate(g, player_id, 0, TRUE, [reason |-> "hand_already_finished"])
    ELSE IF player_id # g.current_player
    THEN PokerUpdate(g, player_id, PokerInvalidPenalty, FALSE,
                     [invalid |-> TRUE, reason |-> "out_of_turn",
                      legal_moves |-> IF g.current_player \in DOMAIN g.player_states
                                      THEN PokerLegalActions(g, g.current_player)
                                      ELSE <<>>])
    ELSE IF player_id \notin DOMAIN g.player_states
    THEN [game |-> g, ret |-> Raise("KeyError")]
    ELSE
    LET starting_score == g.scores[player_id]
        normalized == StrLower(StrStrip(command))
        legal_moves == Range(PokerLegalActions(g, player_id))
        info == [stage |-> g.stage, pot |-> g.pot]
    IN
    IF normalized \notin legal_moves
    THEN LET g2 == [g EXCEPT
                      !.scores = AddTo(g.scores, player_id, PokerInvalidPenalty),
                      !.history = Append(g.history,
                           HistoryLine("submitted an invalid action: .", player_id, None,
                                       command))]
         IN PokerUpdate(g2, player_id, g2.scores[player_id] - starting_score, g2.terminal,
                        Merge(info, [invalid |-> TRUE, reason |-> "illegal_command",
                                     legal_moves |-> SortedStrs(legal_moves)]))
    ELSE PokerActed(IF normalized = FOLD THEN PokerFold(g, player_id)
                    ELSE IF normalized = BET THEN PokerBet(g, player_id)
                    ELSE IF normalized = CALL THEN PokerCall(g, player_id)
                    ELSE PokerCheck(g, player_id),
                    player_id, starting_score, normalized, info)

PokerFinalScores(g) == g.scores

PokerStatus(g) ==
    [stage |-> g.stage, board |-> g.board, pot |-> g.pot, winner |-> g.winner,
     history |-> g.history, terminal |-> g.terminal]

(***************************************************************************)
(* The TurnBasedGame contract (bench/core/game_master.py), dispatched on   *)
(* the class of the instance.                                              *)
(***************************************************************************)
Reset(g, entropy) ==
    CASE g.kind = "tic_tac_toe" -> TTTReset(g)
      [] g.kind = "blackjack" -> BJReset(g, entropy)
      [] g.kind = "poker" -> PokerReset(g, entropy)

Apply(g, player_id, command) ==
    CASE g.kind = "tic_tac_toe" -> TTTApply(g, player_id, command)
      [] g.kind = "blackjack" -> BJApply(g, player_id, command)
      [] g.kind = "poker" -> PokerApply(g, player_id, command)

IsTerminal(g) == g.terminal

CurrentPlayer(g) ==
    CASE g.kind = "tic_tac_toe" -> [game |-> g, ret |-> Returned(TTTCurrentPlayer(g))]
      [] g.kind = "blackjack" -> BJCurrentPlayer(g)
      [] g.kind = "poker" -> [game |-> g, ret |-> Returned(PokerCurrentPlayer(g))]

Observation(g, player_id) ==
    CASE g.kind = "tic_tac_toe" -> TTTObservation(g, player_id)
      [] g.kind = "blackjack" -> BJObservation(g, player_id)
      [] g.kind = "poker" -> PokerObservation(g, player_id)

LegalActions(g, player_id) ==
    CASE g.kind = "tic_tac_toe" -> TTTLegalActions(g, player_id)
      [] g.kind = "blackjack" -> BJLegalActions(g, player_id)
      [] g.kind = "poker" -> PokerLegalActions(g, player_id)

FinalScores(g) ==
    CASE g.kind = "tic_tac_toe" -> TTTFinalScores(g)
      [] g.kind = "blackjack" -> BJFinalScores(g)
      [] g.kind = "poker" -> PokerFinalScores(g)

Status(g) ==
    CASE g.kind = "tic_tac_toe" -> TTTStatus(g)
      [] g.kind = "blackjack" -> BJStatus(g)
      [] g.kind = "poker" -> PokerStatus(g)

\* The seeds a reset may draw a shuffle from.
Seeds(g) ==
    CASE g.kind = "tic_tac_toe" -> {0}
      [] g.kind = "blackjack" -> IF g.seed = {} THEN BJSeeds ELSE g.seed
      [] g.kind = "poker" -> IF g.seed = {} THEN PokerSeeds ELSE g.seed

\* Whether reset has dealt a round on this instance.
HasRound(g) == DOMAIN g.scores # {}

(***************************************************************************)
(* Commands the callers submit.                                            *)
(***************************************************************************)
BJCommands == {HIT, STAND, <<" ", "H", "i", "t">>, <<"d", "o", "u", "b", "l", "e">>}

PokerCommands ==
    {CHECK, BET, CALL, FOLD, <<"F", "o", "l", "d", " ">>}

Commands(g) ==
    CASE g.kind = "tic_tac_toe" -> TTTCommands
      [] g.kind = "blackjack" -> BJCommands
      [] g.kind = "poker" -> PokerCommands

\* An actor out of turn is turned away before its command is read
\* (tic_tac_toe/engine.py 65, blackjack/engine.py 117, poker/engine.py 129):
\* callers out of turn submit one legal and one illegal command.
OutOfTurnCommands(g) ==
    CASE g.kind = "tic_tac_toe" -> {Cell(1), <<"p", "l", "a", "c", "e", " ", "4", "2">>}
      [] g.kind = "blackjack" -> {HIT, <<"d", "o", "u", "b", "l", "e">>}
      [] g.kind = "poker" -> {CHECK, <<"r", "a", "i", "s", "e">>}

\* The commands a caller submits for an actor.
CommandsFor(g, player_id) ==
    IF HasRound(g) /\ ~CurrentPlayer(g).ret.raised /\ player_id # CurrentPlayer(g).ret.value
    THEN OutOfTurnCommands(g)
    ELSE Commands(g)

BJPlayerLists == {<<>>, <<"alice", "bob", "carol">>}

\* Penalised applies a caller makes in one round.
MaxRejected == 1

(***************************************************************************)
(* Spec: one game instance and the callers of its contract.                *)
(***************************************************************************)
SeedChoices(seeds) == {{x} : x \in seeds} \cup {{}}

TTTGames == {TTTNew(TTTDefaultPlayers)}

BJGames == {BJNew(ps, seed) : ps \in BJPlayerLists, seed \in SeedChoices(BJSeeds)}

PokerGames == {PokerNew(<<>>, seed) : seed \in SeedChoices(PokerSeeds)}

\* The instances of the specification of all three games.
Games ==
    TTTGames
    \cup {g \in BJGames : g.seed \in {{42}, {35}, {}}}
    \cup {g \in PokerGames : g.seed = {13}}

NoCall == [op |-> "new", player |-> None]

\* The orchestrator of bench/core/game_master.py: the fields of a GameMaster
\* and the locals of its run().
Master(pc, agents, requested, max_turns) ==
    [pc |-> pc, agents |-> agents, requested |-> requested, max_turns |-> max_turns,
     turn_index |-> 0, turns |-> <<>>, scores |-> EmptyDict, recorded_action |-> <<>>,
     result |-> None, error |-> None]

NoMaster == Master("none", {}, 0, 0)

\* A caller that runs no repeated matches.
NoReplay == [agents |-> EmptyDict, max_turns |-> 0, runs |-> <<>>, updates |-> <<>>]

Init ==
    /\ game \in Games
    /\ ret = NoReturn
    /\ call = NoCall
    /\ rejected = 0
    /\ gm = NoMaster
    /\ replay = NoReplay

DoReset ==
    /\ \E entropy \in Seeds(game) : game' = Reset(game, entropy)
    /\ ret' = NoReturn
    /\ call' = [op |-> "reset", player |-> None]
    /\ rejected' = 0
    /\ UNCHANGED <<gm, replay>>

Penalised(g, r) ==
    /\ ~r.ret.raised
    /\ Has(r.ret.info, "invalid")
    /\ r.game # g

DoApply ==
    \E player_id \in Range(game.players) :
      \E command \in CommandsFor(game, player_id) :
        \E r \in {Apply(game, player_id, command)} :
        /\ rejected' = IF Penalised(game, r) THEN rejected + 1 ELSE rejected
        /\ rejected' <= MaxRejected
        /\ game' = r.game
        /\ ret' = r.ret
        /\ call' = [op |-> "apply", player |-> player_id]
        /\ UNCHANGED <<gm, replay>>

Next == DoReset \/ DoApply

Spec == Init /\ [][Next]_vars

\* One class of game at a time.
InitOf(games) ==
    /\ game \in games
    /\ ret = NoReturn
    /\ call = NoCall
    /\ rejected = 0
    /\ gm = NoMaster
    /\ replay = NoReplay

SpecTTT == InitOf(TTTGames) /\ [][Next]_vars

SpecBJ == InitOf(BJGames) /\ [][Next]_vars

SpecPoker == InitOf(PokerGames) /\ [][Next]_vars

\* Poker hands dealt from a fixed seed only.
SpecPokerSeeded == InitOf({g \in PokerGames : g.seed \in {{13}, {321}}}) /\ [][Next]_vars

(***************************************************************************)
(* GameMaster (bench/core/game_master.py) and MatchRunner                  *)
(* (harness/match.py).  gm.pc is the position of the orchestrator:         *)
(*   "none"         no GameMaster yet                                      *)
(*   "unbuilt"      __init__ raised gm.error: there is no GameMaster       *)
(*   "constructed"  __init__ returned                                      *)
(*   "loop"         run() is at the head of its for loop                   *)
(*   "after"        run() left the loop by a break                         *)
(*   "returned"     run() returned gm.result                               *)
(*   "raised"       run() raised gm.error                                  *)
(***************************************************************************)
DefaultMaxTurns == 200

Max(a, b) == IF a >= b THEN a ELSE b

\* [player for player in game.players if player not in agents]
RECURSIVE Missing(_, _)
Missing(players, agents) ==
    IF players = <<>> THEN <<>>
    ELSE IF Head(players) \notin agents
         THEN <<Head(players)>> \o Missing(Tail(players), agents)
         ELSE Missing(Tail(players), agents)

\* A constructor that resets the game before it looks for missing agents.
GMInitResetsFirst(g, agents, max_turns) ==
    IF Missing(g.players, agents) # <<>>
    THEN [game |-> Reset(g, CHOOSE entropy \in Seeds(g) : TRUE),
          gm |-> [Master("unbuilt", agents, max_turns, 0) EXCEPT !.error = "ValueError"]]
    ELSE [game |-> g,
          gm |-> Master("constructed", agents, max_turns, Max(1, max_turns))]

\* GameMaster.__init__: agents is the set of keys of the mapping.  It returns
\* the game as it leaves it, and the master or the error.
GMInit(g, agents, max_turns) ==
    IF Missing(g.players, agents) # <<>>
    THEN [game |-> g,
          gm |-> [Master("unbuilt", agents, max_turns, 0) EXCEPT !.error = "ValueError"]]
    ELSE [game |-> g,
          gm |-> Master("constructed", agents, max_turns, Max(1, max_turns))]

TurnRecord(turn_index, player_id, command, reward, info) ==
    [turn_index |-> turn_index, player_id |-> player_id, command |-> command,
     reward |-> reward, info |-> info]

MatchResult(turns, scores, winner, status, completed) ==
    [turns |-> turns, scores |-> scores, winner |-> winner, status |-> status,
     completed |-> completed]

determine_winner(scores) ==
    IF DOMAIN scores = {} THEN None
    ELSE LET best_score == SetMax({scores[p] : p \in DOMAIN scores})
             leaders == {p \in DOMAIN scores : scores[p] = best_score}
         IN IF Cardinality(leaders) = 1 THEN CHOOSE p \in leaders : TRUE ELSE None

\* The first statements of run().
GMRunBegin(g, m, entropy) ==
    [game |-> Reset(g, entropy),
     gm |-> [m EXCEPT !.pc = "loop", !.turn_index = 0, !.turns = <<>>,
                      !.scores = [p \in Range(g.players) |-> 0],
                      !.recorded_action = <<>>, !.result = None, !.error = None]]

\* for turn_index in range(self._max_turns): if self._game.is_terminal(): break
GMLoopEnters(g, m) ==
    /\ m.pc = "loop"
    /\ m.turn_index < m.max_turns
    /\ ~IsTerminal(g)

\* What agent.perform_iteration(observation, executor) does with the executor:
\* it submits one command of its choice, or returns without submitting any.
Quiet == [submits |-> FALSE, command |-> <<>>]

Submit(command) == [submits |-> TRUE, command |-> command]

perform_iteration(observation, commands) ==
    {Quiet} \cup {Submit(c) : c \in commands}

\* The observation run() hands to the agent.
GMObserved(g, player_id, obs) ==
    IF obs.raised THEN obs
    ELSE Returned(IF Has(obs.value, "legal_moves") THEN obs.value
                  ELSE Merge(obs.value, [legal_moves |-> LegalActions(g, player_id)]))

GMObservation(g, player_id) == GMObserved(g, player_id, Observation(g, player_id))

\* A run() that goes on to the next turn when no command was submitted.
GMSilentSkips(m) ==
    [m EXCEPT !.recorded_action = <<>>, !.turn_index = m.turn_index + 1]

\* if recorded_action is None: raise RuntimeError(...)
GMSilent(m) ==
    [m EXCEPT !.pc = "raised", !.error = "RuntimeError", !.recorded_action = <<>>]

\* A run() that keeps no record of a command the game rejected.
GMRecordAcceptedOnly(m, player_id, command, step_result) ==
    [m EXCEPT !.recorded_action = <<command>>,
              !.scores = AddTo(m.scores, player_id, step_result.reward),
              !.turns = IF Has(step_result.info, "invalid") THEN m.turns
                        ELSE Append(m.turns,
                                    TurnRecord(m.turn_index, player_id, command,
                                               step_result.reward, step_result.info))]

\* scores[player_id] += reward; turns.append(TurnRecord(...))
GMRecord(m, player_id, command, step_result) ==
    [m EXCEPT !.recorded_action = <<command>>,
              !.scores = AddTo(m.scores, player_id, step_result.reward),
              !.turns = Append(m.turns,
                               TurnRecord(m.turn_index, player_id, command,
                                          step_result.reward, step_result.info))]

\* run() ends by the exception a call on the game raised.
GMRaised(g, raised, m, recorded) ==
    [game |-> g, ret |-> raised,
     gm |-> [m EXCEPT !.pc = "raised", !.error = raised.error,
                      !.recorded_action = recorded]]

\* The statements of the loop after self._game.apply(player_id, command).
GMApplied(update, m, player_id, command) ==
    IF update.ret.raised
    THEN GMRaised(update.game, update.ret, m, <<command>>)
    ELSE [game |-> update.game, ret |-> update.ret,
          gm |-> [GMRecord(m, player_id, command, update.ret) EXCEPT
                    !.pc = IF update.ret.done /\ IsTerminal(update.game)
                           THEN "after" ELSE "loop",
                    !.turn_index = IF update.ret.done /\ IsTerminal(update.game)
                                   THEN m.turn_index ELSE m.turn_index + 1]]

\* The statements of the loop after the observation was built.
GMDecided(g, m, player_id, observation, decision) ==
    IF observation.raised
    THEN GMRaised(g, observation, m, <<>>)
    ELSE IF ~decision.submits
    THEN [game |-> g, ret |-> NoReturn, gm |-> GMSilent(m)]
    ELSE GMApplied(Apply(g, player_id, decision.command), m, player_id, decision.command)

\* The statements of the loop after player_id = self._game.current_player().
GMActing(cp, m, decision) ==
    IF cp.ret.raised
    THEN GMRaised(cp.game, cp.ret, m, <<>>)
    ELSE GMDecided(cp.game, m, cp.ret.value, GMObservation(cp.game, cp.ret.value),
                   decision)

\* The body of the loop, for the decision the agent takes: the game, the
\* master and the value of the game's apply (or what was raised) after it.
GMTurn(g, m, decision) == GMActing(CurrentPlayer(g), m, decision)

\* A run() that always reports its own running tally.
GMRunEndTally(g, m) ==
    LET completed == IsTerminal(g)
        winner == IF completed THEN determine_winner(m.scores) ELSE None
    IN [m EXCEPT !.pc = "returned",
                 !.result = MatchResult(m.turns, m.scores, winner, Status(g), completed)]

\* The statements of run() after the loop.
GMRunEnd(g, m) ==
    LET completed == IsTerminal(g)
        final_scores == IF completed THEN FinalScores(g) ELSE m.scores
        winner == IF completed THEN determine_winner(final_scores) ELSE None
    IN [m EXCEPT !.pc = "returned",
                 !.result = MatchResult(m.turns, final_scores, winner, Status(g), completed)]

(***************************************************************************)
(* SpecGM: matches run by a GameMaster.                                    *)
(***************************************************************************)
\* Turns of one run that the model follows.
MaxTurns == 5

MaxTurnsArgs == {0, 1, 2, MaxTurns, DefaultMaxTurns}

MasterGames ==
    TTTGames
    \cup {g \in BJGames : g.seed \in {{42}, {35}} /\ Len(g.players) = 2}
    \cup {g \in PokerGames : g.seed \in {{13}, {321}}}

\* The keys of the agents mapping: all the actors, or all but one.
AgentKeys(g) ==
    {Range(g.players)} \cup {Range(g.players) \ {p} : p \in Range(g.players)}

\* The commands the agents choose from.
AgentCommands(g) ==
    CASE g.kind = "tic_tac_toe" -> {Cell(n) : n \in 1..5} \cup {<<"sup2">>}
      [] g.kind = "blackjack" -> {HIT, STAND, <<"d", "o", "u", "b", "l", "e">>}
      [] g.kind = "poker" -> {CHECK, BET, CALL, FOLD, <<"r", "a", "i", "s", "e">>}

\* A master is built on an instance that is new or has a round dealt.
InitGM ==
    /\ game \in MasterGames
                \cup UNION {{Reset(g, entropy) : entropy \in Seeds(g)} : g \in MasterGames}
    /\ ret = NoReturn
    /\ call = NoCall
    /\ rejected = 0
    /\ gm = NoMaster
    /\ replay = NoReplay

Construct ==
    /\ gm.pc = "none"
    /\ \E agents \in AgentKeys(game), max_turns \in MaxTurnsArgs :
         \E r \in {GMInit(game, agents, max_turns)} :
            /\ game' = r.game
            /\ gm' = r.gm
    /\ UNCHANGED <<ret, call, rejected, replay>>

RunBegin ==
    /\ gm.pc \in {"constructed", "returned", "raised"}
    /\ \E entropy \in Seeds(game) :
         \E r \in {GMRunBegin(game, gm, entropy)} :
            /\ game' = r.game
            /\ gm' = r.gm
    /\ ret' = NoReturn
    /\ call' = [op |-> "reset", player |-> None]
    /\ UNCHANGED <<rejected, replay>>

Turn ==
    /\ GMLoopEnters(game, gm)
    /\ Len(gm.turns) < MaxTurns
    /\ \E decision \in perform_iteration(GMObservation(game, CurrentPlayer(game).ret.value),
                                         AgentCommands(game)) :
         \E r \in {GMTurn(game, gm, decision)} :
            /\ game' = r.game
            /\ gm' = r.gm
            /\ ret' = r.ret
            /\ call' = IF decision.submits
                       THEN [op |-> "apply", player |-> CurrentPlayer(game).ret.value]
                       ELSE call
    /\ UNCHANGED <<rejected, replay>>

RunEnd ==
    /\ gm.pc = "after" \/ (gm.pc = "loop" /\ ~GMLoopEnters(game, gm))
    /\ gm' = GMRunEnd(game, gm)
    /\ UNCHANGED <<game, ret, call, rejected, replay>>

NextGM == Construct \/ RunBegin \/ Turn \/ RunEnd

SpecGM == InitGM /\ [][NextGM]_vars

(***************************************************************************)
(* Properties of the match orchestrator, checked under SpecGM.             *)
(***************************************************************************)
\* The one actor whose score is strictly greater than every other actor's.
StrictLeader(scores) ==
    LET top == {p \in DOMAIN scores : \A q \in DOMAIN scores \ {p} : scores[p] > scores[q]}
    IN IF top = {} THEN None ELSE CHOOSE p \in top : TRUE

\* The sum of the rewards of the turn records of one actor.
RECURSIVE RewardsOf(_, _)
RewardsOf(turns, p) ==
    IF turns = <<>> THEN 0
    ELSE (IF Head(turns).player_id = p THEN Head(turns).reward ELSE 0)
         + RewardsOf(Tail(turns), p)

\* C1: after GameMaster.run returns, completed equals is_terminal(); a
\* completed match reports the game's final_scores and, as winner, the one
\* actor whose score is strictly greater than every other's (none when the top
\* score is shared); a match that is not completed reports the running sum of
\* the per-turn rewards and no winner.
C1_RunResult ==
    gm.pc = "returned" =>
        /\ gm.result.completed = IsTerminal(game)
        /\ gm.result.completed =>
              /\ gm.result.scores = FinalScores(game)
              /\ gm.result.winner = StrictLeader(FinalScores(game))
        /\ ~gm.result.completed =>
              /\ gm.result.scores =
                    [p \in Range(game.players) |-> RewardsOf(gm.result.turns, p)]
              /\ gm.result.winner = None

\* A completed blackjack match with a single winner whose final scores are not
\* the sum of the rewards received turn by turn.
C1_Witness ==
    /\ gm.pc = "returned"
    /\ gm.result.completed
    /\ gm.result.winner # None
    /\ \E p \in Range(game.players) :
          gm.result.scores[p] # RewardsOf(gm.result.turns, p)

\* C2: constructing a GameMaster for a game with a player that has no entry
\* in the agents mapping raises ValueError at construction; the game is left
\* exactly as it was and neither reset nor apply has been called on it.
C2_MissingAgentFailsFast ==
    [][(/\ gm.pc = "none"
        /\ gm'.pc # "none"
        /\ \E p \in Range(game.players) : p \notin gm'.agents)
       => /\ gm'.pc = "unbuilt"
          /\ gm'.error = "ValueError"
          /\ game' = game
          /\ call' = call
          /\ ret' = ret]_vars

\* Construction failed on an instance that had a round dealt.
C2_Witness ==
    /\ gm.pc = "unbuilt"
    /\ gm.error = "ValueError"
    /\ HasRound(game)
    /\ \E p \in Range(game.players) : p \notin gm.agents

\* What C3 says of the turn ceiling: it is the requested ceiling raised to 1
\* when lower, a run never holds more turn records than it, no agent acts on
\* a terminal game, and a run that stops on a game that is not terminal has
\* used the whole ceiling and reports completed = false.
C3_Ceiling ==
    /\ gm.pc \notin {"none", "unbuilt"} => gm.max_turns = Max(1, gm.requested)
    /\ gm.pc \in {"loop", "after", "returned", "raised"} =>
          /\ Len(gm.turns) <= gm.max_turns
          /\ gm.turn_index <= gm.max_turns
    /\ (gm.pc = "returned" /\ ~IsTerminal(game)) =>
          /\ ~gm.result.completed
          /\ Len(gm.result.turns) = gm.max_turns
    /\ gm.pc = "after" => IsTerminal(game)

\* C3: GameMaster.run always returns, whatever commands the agents submit: a
\* run in which every agent asked has submitted a command does not raise, and
\* the turn ceiling is respected.
C3_RunAlwaysReturns ==
    /\ C3_Ceiling
    /\ gm.pc = "raised" => gm.recorded_action = <<>>

\* A run that raised out of the game's apply on a submitted command.
C3_Witness ==
    /\ gm.pc = "raised"
    /\ gm.recorded_action # <<>>
    /\ gm.error = "ValueError"

\* C4: every command the orchestrator applies becomes exactly one turn
\* record, appended in order with the next index from 0, the game's current
\* actor, and the reward and info that apply returned; a command outside the
\* actor's legal moves is recorded too, with info.invalid = TRUE and a
\* negative reward; the MatchResult carries the records as they are.
C4_TurnsAudit ==
    [][\E cp \in {CurrentPlayer(game)} :
         /\ (/\ gm.pc = "loop"
             /\ gm'.pc \in {"loop", "after"}
             /\ gm' # gm)
            => /\ gm'.recorded_action # <<>>
               /\ \E update \in {Apply(cp.game, cp.ret.value, gm'.recorded_action[1])} :
                    /\ game' = update.game
                    /\ ret' = update.ret
                    /\ gm'.turns = Append(gm.turns,
                                          [turn_index |-> Len(gm.turns),
                                           player_id |-> cp.ret.value,
                                           command |-> gm'.recorded_action[1],
                                           reward |-> update.ret.reward,
                                           info |-> update.ret.info])
                    /\ gm'.recorded_action[1]
                            \notin Range(LegalActions(cp.game, cp.ret.value))
                          => /\ Has(update.ret.info, "invalid")
                             /\ update.ret.info.invalid = TRUE
                             /\ update.ret.reward < 0
         /\ (gm.pc # "returned" /\ gm'.pc = "returned") => gm'.result.turns = gm.turns
         /\ (gm.pc = "loop" /\ game' # cp.game)
               => Len(gm'.turns) = Len(gm.turns) + 1 \/ gm'.pc = "raised"]_vars

\* A returned match whose records hold a rejected command followed by an
\* accepted one.
C4_Witness ==
    /\ gm.pc = "returned"
    /\ \E i \in 1..Len(gm.result.turns) - 1 :
          /\ Has(gm.result.turns[i].info, "invalid")
          /\ ~Has(gm.result.turns[i + 1].info, "invalid")

\* C5: when an agent's turn ends with no command submitted, run raises
\* RuntimeError: no turn record is added, the game is not applied to and no
\* MatchResult is produced.
C5_SilentAgentIsFatal ==
    [][(/\ gm.pc = "loop"
        /\ gm'.pc # "returned"
        /\ gm' # gm
        /\ gm'.recorded_action = <<>>)
       => /\ gm'.pc = "raised"
          /\ gm'.error = "RuntimeError"
          /\ gm'.turns = gm.turns
          /\ gm'.scores = gm.scores
          /\ gm'.result = None
          /\ game' = CurrentPlayer(game).game]_vars

\* A run that raised on a silent agent after it had recorded turns.
C5_Witness ==
    /\ gm.pc = "raised"
    /\ gm.error = "RuntimeError"
    /\ gm.recorded_action = <<>>
    /\ Len(gm.turns) > 0

(***************************************************************************)
(* Properties of the games' apply, checked under Spec and SpecTTT.  They   *)
(* are stated on the current state for every actor and command the model   *)
(* draws: Apply is the operator the DoApply action takes its step from.    *)
(***************************************************************************)
InvalidPenalty(g) ==
    CASE g.kind = "tic_tac_toe" -> TTTInvalidPenalty
      [] g.kind = "blackjack" -> BJInvalidPenalty
      [] g.kind = "poker" -> PokerInvalidPenalty

\* The legal move a command names, <<>> when it names none.
MoveNamed(g, command) ==
    IF g.kind = "tic_tac_toe"
    THEN LET move == TTTMove(command) IN
         IF move.raised \/ move.value = <<>> THEN <<>>
         ELSE StrOfNat(move.value[1] + 1)
    ELSE StrLower(StrStrip(command))

\* The actor whose turn it is, and the game as current_player() leaves it.
Actor(g) == CurrentPlayer(g).ret.value

Asked(g) == CurrentPlayer(g).game

Illegal(g, command) ==
    MoveNamed(g, command) \notin Range(LegalActions(Asked(g), Actor(g)))

Running(g) == HasRound(g) /\ ~IsTerminal(g)

\* C6: in a terminal state apply, by any actor with any command, returns
\* reward 0 and done = TRUE without raising and leaves the whole game state
\* as it was, so the game is still terminal.
C6_ApplyAfterTerminal ==
    IsTerminal(game) =>
        \A player_id \in Range(game.players), command \in Commands(game) :
            \A update \in {Apply(game, player_id, command)} :
            /\ ~update.ret.raised
            /\ update.ret.reward = 0
            /\ update.ret.done = TRUE
            /\ update.game = game
            /\ IsTerminal(update.game)

\* A terminal state in which the last call was an apply answered "already
\* finished".
C6_Witness ==
    /\ IsTerminal(game)
    /\ call.op = "apply"
    /\ ~ret.raised
    /\ ret.reward = 0
    /\ ret.done
    /\ ret.info.reason \in {"match_already_finished", "hand_already_finished"}

\* C7: when the current actor submits an illegal command in a state that is
\* not terminal, apply does not raise, lowers that actor's score by exactly
\* the invalid penalty, returns that amount as reward with info.invalid = TRUE
\* and a reason, and changes no other actor's score.
C7_IllegalCommandPenalised ==
    Running(game) =>
        \A command \in Commands(game) :
            Illegal(game, command) =>
                \A update \in {Apply(game, Actor(game), command)} :
                /\ ~update.ret.raised
                /\ update.game.scores[Actor(game)]
                      = game.scores[Actor(game)] + InvalidPenalty(game)
                /\ update.ret.reward = InvalidPenalty(game)
                /\ Has(update.ret.info, "invalid")
                /\ update.ret.info.invalid = TRUE
                /\ Has(update.ret.info, "reason")
                /\ \A other \in Range(game.players) \ {Actor(game)} :
                      update.game.scores[other] = game.scores[other]

\* An apply that raised.
C7_Witness ==
    /\ call.op = "apply"
    /\ ret.raised
    /\ ret.error = "ValueError"

\* C8: an apply in a state that is not terminal by an actor other than the
\* current one does not raise, returns invalid = TRUE with reason out_of_turn
\* and a negative reward, and charges the penalty to that actor's score, so
\* that final_scores shows it.
C8_OutOfTurnCharged ==
    Running(game) =>
        \A player_id \in Range(game.players) \ {Actor(game)}, command \in Commands(game) :
            \A update \in {Apply(game, player_id, command)} :
            /\ ~update.ret.raised
            /\ Has(update.ret.info, "invalid")
            /\ update.ret.info.invalid = TRUE
            /\ update.ret.info.reason = "out_of_turn"
            /\ update.ret.reward < 0
            /\ update.game.scores[player_id] = game.scores[player_id] + update.ret.reward
            /\ FinalScores(update.game)[player_id]
                  = FinalScores(game)[player_id] + update.ret.reward

\* An out-of-turn apply that returned a penalty and left every score as it was.
C8_Witness ==
    /\ call.op = "apply"
    /\ ~ret.raised
    /\ Has(ret.info, "invalid")
    /\ ret.info.reason = "out_of_turn"
    /\ ret.reward < 0
    /\ \A p \in DOMAIN game.scores : game.scores[p] = 0

\* Whether a command names a cell of the board that is occupied.
TTTOccupied(g, command) ==
    \E move \in {TTTMove(command)} :
        /\ ~move.raised
        /\ move.value # <<>>
        /\ g.board[move.value[1] + 1] # " "

\* C9: in tic-tac-toe a move by the current actor to an occupied cell leaves
\* the board and the turn count as they were, returns invalid = TRUE, and
\* current_player is the same actor after the call as before it.
C9_OccupiedCellRejected ==
    (game.kind = "tic_tac_toe" /\ Running(game)) =>
        \A command \in TTTCommands :
            TTTOccupied(game, command) =>
                \A update \in {TTTApply(game, TTTCurrentPlayer(game), command)} :
                /\ ~update.ret.raised
                /\ update.game.board = game.board
                /\ update.game.turn_count = game.turn_count
                /\ Has(update.ret.info, "invalid")
                /\ update.ret.info.invalid = TRUE
                /\ TTTCurrentPlayer(update.game) = TTTCurrentPlayer(game)

\* A running match, reached by a rejected move of the actor whose turn it
\* still is, in which a move to an occupied cell is rejected as illegal.
C9_Witness ==
    /\ game.kind = "tic_tac_toe"
    /\ Running(game)
    /\ call.op = "apply"
    /\ call.player = TTTCurrentPlayer(game)
    /\ ~ret.raised
    /\ Has(ret.info, "invalid")
    /\ ret.info.reason = "illegal_move"
    /\ \E n \in 1..9 :
          /\ game.board[n] # " "
          /\ TTTApply(game, TTTCurrentPlayer(game), Cell(n)).ret.info.reason = "illegal_move"

\* The sum of the final scores of all the actors.
RECURSIVE SumOver(_, _)
SumOver(scores, players) ==
    IF players = {} THEN 0
    ELSE LET p == CHOOSE q \in players : TRUE
         IN scores[p] + SumOver(scores, players \ {p})

TotalScore(g) == SumOver(FinalScores(g), DOMAIN FinalScores(g))

Fresh(g) ==
    CASE g.kind = "tic_tac_toe" -> TTTNew(g.players)
      [] g.kind = "blackjack" -> BJNew(g.players, g.seed)
      [] g.kind = "poker" -> PokerNew(g.players, g.seed)

\* The actor that moves first in a round.
FirstActor(g) == IF g.kind = "poker" THEN g.players[2] ELSE g.players[1]

\* An empty board, or two cards for every actor (and the dealer) off a full deck.
FreshlyDealt(g) ==
    CASE g.kind = "tic_tac_toe" ->
           /\ g.board = [i \in 1..9 |-> " "]
           /\ g.turn_count = 0
           /\ g.winner = None
      [] g.kind = "blackjack" ->
           /\ DOMAIN g.player_states = Range(g.players)
           /\ \A p \in Range(g.players) :
                 g.player_states[p] = BlackjackPlayerState(g.player_states[p].hand)
           /\ \A p \in Range(g.players) : Len(g.player_states[p].hand) = 2
           /\ Len(g.dealer_hand) = 2
           /\ ~g.dealer_resolved
           /\ Len(g.deck) = Len(create_deck) - 2 * (Len(g.players) + 1)
      [] g.kind = "poker" ->
           /\ DOMAIN g.player_states = Range(g.players)
           /\ \A p \in Range(g.players) :
                 g.player_states[p] = PokerPlayerState(g.player_states[p].hand)
           /\ \A p \in Range(g.players) : Len(g.player_states[p].hand) = 2
           /\ g.board = <<>>
           /\ Len(g.board_plan) = 5
           /\ Len(g.deck) = Len(build_deck) - 5 - 2 * Len(g.players)
           /\ g.stage = "preflop"
           /\ g.pot = 2 * PokerBetAmount
           /\ g.winner = None
           /\ ~g.awaiting_call

\* C11: a reset, from whatever state it is called in, leaves a state that is
\* not terminal, with every actor's score at 0, hands freshly dealt or the
\* board empty, and the turn on the first actor to move; the state is the one
\* a reset of the newly constructed instance gives, so with a fixed seed (and
\* in tic-tac-toe) it is the same after every reset.
C11_ResetStartsAfresh ==
    [][call'.op = "reset" =>
          /\ ~IsTerminal(game')
          /\ game'.scores = [p \in Range(game.players) |-> 0]
          /\ FreshlyDealt(game')
          /\ \E cp \in {CurrentPlayer(game')} :
                /\ ~cp.ret.raised
                /\ cp.ret.value = FirstActor(game')
                /\ cp.game = game'
          /\ \E entropy \in Seeds(game) : game' = Reset(Fresh(game), entropy)
          /\ (game.kind = "tic_tac_toe" \/ game.seed # {})
                => \A entropy \in Seeds(Fresh(game)) : game' = Reset(Fresh(game), entropy)
      ]_vars

\* A round dealt by a reset of a seeded poker instance.
C11_Witness ==
    /\ call.op = "reset"
    /\ game.kind = "poker"
    /\ game.seed # {}
    /\ HasRound(game)
    /\ ~IsTerminal(game)
    /\ game = Reset(Fresh(game), CHOOSE entropy \in Seeds(game) : TRUE)

(***************************************************************************)
(* SpecReplay: a caller that runs the same match more than once.  It keeps *)
(* one decision function for each actor and one ceiling, builds a          *)
(* GameMaster on the instance it has or on a new instance with the same    *)
(* arguments, and keeps what every run returned and every update the       *)
(* game's apply returned during it.                                        *)
(***************************************************************************)
\* Runs of one caller.
MaxRuns == 2

\* The decision functions: the first, the second or the last of the legal
\* moves shown, or one command whatever is shown.
Policies == {"first", "second", "last", "fixed"}

FixedCommand(g) ==
    CASE g.kind = "tic_tac_toe" -> Cell(1)
      [] g.kind = "blackjack" -> HIT
      [] g.kind = "poker" -> CHECK

Nth(moves, n) == IF moves = <<>> THEN Quiet ELSE Submit(moves[IF n <= Len(moves) THEN n ELSE Len(moves)])

Decide(policy, g, observation) ==
    CASE policy = "fixed" -> Submit(FixedCommand(g))
      [] policy = "first" -> Nth(observation.legal_moves, 1)
      [] policy = "second" -> Nth(observation.legal_moves, 2)
      [] policy = "last" -> Nth(observation.legal_moves, Len(observation.legal_moves))

ReplayMaxTurns == {2, 2 * MaxTurns}

InitReplay ==
    /\ game \in MasterGames
    /\ ret = NoReturn
    /\ call = NoCall
    /\ rejected = 0
    /\ gm = NoMaster
    /\ \E agents \in [Range(game.players) -> Policies], max_turns \in ReplayMaxTurns :
          replay = [agents |-> agents, max_turns |-> max_turns, runs |-> <<>>,
                    updates |-> <<>>]

\* GameMaster(game, agents, max_turns) on the instance at hand or on a new one.
ReplayConstruct ==
    /\ gm.pc \in {"none", "returned", "raised"}
    /\ Len(replay.runs) < MaxRuns
    /\ \E g \in {game, Fresh(game)} :
         \E r \in {GMInit(g, DOMAIN replay.agents, replay.max_turns)} :
            /\ game' = r.game
            /\ gm' = r.gm
    /\ UNCHANGED <<ret, call, rejected, replay>>

ReplayBegin ==
    /\ gm.pc \in {"constructed", "returned", "raised"}
    /\ Len(replay.runs) < MaxRuns
    /\ \E entropy \in Seeds(game) :
         \E r \in {GMRunBegin(game, gm, entropy)} :
            /\ game' = r.game
            /\ gm' = r.gm
    /\ ret' = NoReturn
    /\ call' = [op |-> "reset", player |-> None]
    /\ replay' = [replay EXCEPT !.updates = <<>>]
    /\ UNCHANGED rejected

\* One turn of run(), the agent of the current actor deciding.
ReplayTurnOf(cp, observation) ==
    \E r \in {GMTurn(game, gm, Decide(replay.agents[cp.ret.value], game,
                                      observation.value))} :
        /\ game' = r.game
        /\ gm' = r.gm
        /\ ret' = r.ret
        /\ call' = [op |-> "apply", player |-> cp.ret.value]
        /\ replay' = [replay EXCEPT !.updates = Append(@, r.ret)]

ReplayTurn ==
    /\ GMLoopEnters(game, gm)
    /\ \E cp \in {CurrentPlayer(game)} :
          ReplayTurnOf(cp, GMObservation(cp.game, cp.ret.value))
    /\ UNCHANGED rejected

ReplayEnd ==
    /\ gm.pc = "after" \/ (gm.pc = "loop" /\ ~GMLoopEnters(game, gm))
    /\ gm' = GMRunEnd(game, gm)
    /\ replay' = [replay EXCEPT
                    !.runs = Append(@, [result |-> gm'.result, updates |-> replay.updates])]
    /\ UNCHANGED <<game, ret, call, rejected>>

NextReplay == ReplayConstruct \/ ReplayBegin \/ ReplayTurn \/ ReplayEnd

SpecReplay == InitReplay /\ [][NextReplay]_vars

\* C12: all the runs of one caller (same seed, same decision functions, same
\* ceiling; on one instance or on instances built alike, by one GameMaster or
\* by several) return the same MatchResult, and the updates apply returns in
\* a run are those it returned, call for call, in every earlier run.
C12_Deterministic ==
    /\ \A i, j \in DOMAIN replay.runs : replay.runs[i] = replay.runs[j]
    /\ \A i \in DOMAIN replay.runs :
          /\ Len(replay.updates) <= Len(replay.runs[i].updates)
          /\ replay.updates = SubSeq(replay.runs[i].updates, 1, Len(replay.updates))

\* Two runs of a seeded poker match in which a command was rejected.
C12_Witness ==
    /\ Len(replay.runs) = 2
    /\ game.kind = "poker"
    /\ Len(replay.runs[2].updates) > 2
    /\ replay.runs[2].result.turns # <<>>
    /\ \E k \in DOMAIN replay.runs[2].result.turns :
          Has(replay.runs[2].result.turns[k].info, "invalid")

(***************************************************************************)
(* SpecLegal: one match with the default ceiling in which every agent      *)
(* submits one of the legal moves it was shown.                            *)
(***************************************************************************)
\* The moves an agent picks from: the first, the second and the last shown.
LegalChoices(moves) ==
    {moves[n] : n \in {1, Len(moves)} \cup {n \in {2} : n <= Len(moves)}}

InitLegal ==
    /\ game \in MasterGames
    /\ ret = NoReturn
    /\ call = NoCall
    /\ rejected = 0
    /\ gm = GMInit(game, Range(game.players), DefaultMaxTurns).gm
    /\ replay = NoReplay

LegalBegin ==
    /\ gm.pc = "constructed"
    /\ \E entropy \in Seeds(game) :
         \E r \in {GMRunBegin(game, gm, entropy)} :
            /\ game' = r.game
            /\ gm' = r.gm
    /\ ret' = NoReturn
    /\ call' = [op |-> "reset", player |-> None]
    /\ UNCHANGED <<rejected, replay>>

\* One turn of run(), the agent picking a legal move of the observation.
LegalTurnOf(cp, observation) ==
    \E command \in LegalChoices(observation.value.legal_moves) :
        \E r \in {GMTurn(game, gm, Submit(command))} :
            /\ game' = r.game
            /\ gm' = r.gm
            /\ ret' = r.ret
            /\ call' = [op |-> "apply", player |-> cp.ret.value]

LegalTurn ==
    /\ GMLoopEnters(game, gm)
    /\ \E cp \in {CurrentPlayer(game)} :
          LegalTurnOf(cp, GMObservation(cp.game, cp.ret.value))
    /\ UNCHANGED <<rejected, replay>>

LegalEnd ==
    /\ gm.pc = "after" \/ (gm.pc = "loop" /\ ~GMLoopEnters(game, gm))
    /\ gm' = GMRunEnd(game, gm)
    /\ UNCHANGED <<game, ret, call, rejected, replay>>

NextLegal == LegalBegin \/ LegalTurn \/ LegalEnd

SpecLegal == InitLegal /\ [][NextLegal]_vars

\* The most turns a match of legal moves can take: nine cells; three actions
\* (check, bet, call) in each of four betting rounds; ten hits and a stand
\* for each of two actors.
LegalTurns(g) ==
    CASE g.kind = "tic_tac_toe" -> 9
      [] g.kind = "poker" -> 12
      [] g.kind = "blackjack" -> 22

\* C13: with agents that always submit a legal move they were shown and the
\* default ceiling, a match of tic-tac-toe, of poker and of two-player
\* blackjack never raises; as long as the game is not terminal the actor to
\* move is shown a legal move, every turn adds a record, and the records
\* stay below the ceiling (9 at most in tic-tac-toe), so the loop ends on a
\* terminal game; run() then returns completed = TRUE.
C13_LegalPlayCompletes ==
    /\ gm.pc \in {"constructed", "loop", "after", "returned"}
    /\ gm.max_turns = DefaultMaxTurns
    /\ gm.pc \in {"loop", "after", "returned"} =>
          /\ Len(gm.turns) = gm.turn_index + (IF gm.pc = "loop" THEN 0 ELSE 1)
          /\ Len(gm.turns) <= LegalTurns(game)
          /\ LegalTurns(game) < gm.max_turns
    /\ GMLoopEnters(game, gm) =>
          \E cp \in {CurrentPlayer(game)} :
             /\ ~cp.ret.raised
             /\ LegalActions(cp.game, cp.ret.value) # <<>>
    /\ gm.pc \in {"after", "returned"} => IsTerminal(game)
    /\ gm.pc = "loop" /\ Len(gm.turns) = LegalTurns(game) => IsTerminal(game)
    /\ gm.pc = "returned" =>
          /\ gm.result.completed = TRUE
          /\ gm.result.turns = gm.turns

\* A drawn tic-tac-toe match returned with nine turn records.
C13_Witness ==
    /\ gm.pc = "returned"
    /\ game.kind = "tic_tac_toe"
    /\ gm.result.completed
    /\ Len(gm.result.turns) = 9
    /\ gm.result.winner = None

(***************************************************************************)
(* Properties of blackjack, checked under SpecBJ.                          *)
(***************************************************************************)
BJAllDone(g) == \A p \in Range(g.players) : g.player_states[p].done

\* The round after the first k actors, in order, have each applied "stand".
RECURSIVE BJStandEach(_, _)
BJStandEach(g, k) ==
    IF k = 0 THEN g
    ELSE BJApply(BJStandEach(g, k - 1), g.players[k], STAND).game

\* C14: a blackjack round is terminal exactly when every actor is finished,
\* and it becomes terminal at the apply of the last unfinished actor, which
\* finishes it; until then the dealer holds its two dealt cards and no actor
\* has a win, push or lose outcome; in a terminal round the dealer is
\* resolved and every actor has an outcome, and later applies leave the
\* dealer's hand alone.  From a reset, one "stand" by each actor in turn ends
\* the round, and not before the last of them.
C14_TerminalAtLastActor ==
    [][/\ HasRound(game') =>
            /\ IsTerminal(game') <=> BJAllDone(game')
            /\ ~IsTerminal(game') =>
                  /\ Len(game'.dealer_hand) = 2
                  /\ ~game'.dealer_resolved
                  /\ \A p \in Range(game'.players) :
                        game'.player_states[p].outcome \notin {"win", "push", "lose"}
            /\ IsTerminal(game') =>
                  /\ game'.dealer_resolved
                  /\ \A p \in Range(game'.players) :
                        game'.player_states[p].outcome
                            \in {"win", "push", "lose", "bust", "invalid"}
       /\ (HasRound(game) /\ ~IsTerminal(game) /\ IsTerminal(game')) =>
            /\ call'.op = "apply"
            /\ ~game.player_states[call'.player].done
            /\ \A p \in Range(game.players) \ {call'.player} : game.player_states[p].done
            /\ ret'.done = TRUE
            /\ SubSeq(game'.dealer_hand, 1, 2) = game.dealer_hand
       /\ (IsTerminal(game) /\ call'.op = "apply") =>
            /\ game'.dealer_hand = game.dealer_hand
            /\ game'.player_states = game.player_states
       /\ call'.op = "reset" =>
            /\ \A k \in 0..(Len(game'.players) - 1) : ~IsTerminal(BJStandEach(game', k))
            /\ IsTerminal(BJStandEach(game', Len(game'.players)))
            /\ \A p \in Range(game'.players) :
                  /\ BJStandEach(game', Len(game'.players)).player_states[p].stood
                  /\ BJStandEach(game', Len(game'.players)).player_states[p].outcome
                        \in {"win", "push", "lose"}
      ]_vars

\* A terminal round of three actors, ended by the apply of the last of them,
\* in which one actor went bust and another stood.
C14_Witness ==
    /\ game.kind = "blackjack"
    /\ IsTerminal(game)
    /\ Len(game.players) = 3
    /\ call.op = "apply"
    /\ ~ret.raised
    /\ ret.done
    /\ ~Has(ret.info, "reason")
    /\ Len(game.dealer_hand) > 2
    /\ \E p, q \in Range(game.players) :
          /\ game.player_states[p].outcome = "bust"
          /\ game.player_states[q].stood

\* C15: in a terminal blackjack round the dealer's total is at least 17, and
\* every card the dealer added to its two dealt cards was drawn on a total
\* below 17; an actor whose hand exceeds 21 has outcome bust, and every
\* actor that is neither bust nor invalid has win when the dealer's total
\* exceeds 21 or is below its own, push when the totals are equal, and lose
\* otherwise.
C15_DealerRuleAndOutcomes ==
    (HasRound(game) /\ IsTerminal(game)) =>
        /\ hand_value(game.dealer_hand) >= 17
        /\ \A k \in 2..(Len(game.dealer_hand) - 1) :
              hand_value(SubSeq(game.dealer_hand, 1, k)) < 17
        /\ \A p \in Range(game.players) :
              \E own \in {hand_value(game.player_states[p].hand)},
                 dealer \in {hand_value(game.dealer_hand)},
                 outcome \in {game.player_states[p].outcome} :
                 /\ own > 21 <=> outcome = "bust"
                 /\ outcome \notin {"bust", "invalid"} =>
                       outcome = IF dealer > 21 \/ own > dealer THEN "win"
                                 ELSE IF own = dealer THEN "push"
                                 ELSE "lose"

\* A terminal round in which the dealer drew past its two cards and went
\* over 21, one actor won on it and another had already gone bust.
C15_Witness ==
    /\ game.kind = "blackjack"
    /\ IsTerminal(game)
    /\ Len(game.dealer_hand) > 2
    /\ hand_value(game.dealer_hand) > 21
    /\ \E p, q \in Range(game.players) :
          /\ game.player_states[p].outcome = "win"
          /\ game.player_states[q].outcome = "bust"

\* A terminal round with a push and a loss against a dealer that stayed on
\* its two dealt cards.
C15_WitnessPush ==
    /\ game.kind = "blackjack"
    /\ IsTerminal(game)
    /\ \E p, q \in Range(game.players) :
          /\ game.player_states[p].outcome = "push"
          /\ game.player_states[q].outcome = "lose"

(***************************************************************************)
(* hand_value (blackjack/utils.py) on its own: a hand is built card by     *)
(* card from the values of the deck and hand_value is called on it.        *)
(***************************************************************************)
MaxHand == 4

InitHand ==
    /\ game = [kind |-> "hand", cards |-> <<>>]
    /\ ret = NoReturn
    /\ call = NoCall
    /\ rejected = 0
    /\ gm = NoMaster
    /\ replay = NoReplay

HandDeal ==
    /\ Len(game.cards) < MaxHand
    /\ \E card \in Range(CARD_VALUES) : game' = [game EXCEPT !.cards = Append(@, card)]
    /\ ret' = NoReturn
    /\ call' = [op |-> "deal", player |-> None]
    /\ UNCHANGED <<rejected, gm, replay>>

HandValue ==
    /\ ret' = Returned(hand_value(game.cards))
    /\ call' = [op |-> "hand_value", player |-> None]
    /\ UNCHANGED <<game, rejected, gm, replay>>

NextHand == HandDeal \/ HandValue

SpecHand == InitHand /\ [][NextHand]_vars

\* The totals of a hand over every way of counting each ace as 1 or as 11.
AceTotals(cards) ==
    {SumSeq([i \in DOMAIN cards |-> IF i \in elevens THEN 11 ELSE cards[i]]) :
        elevens \in SUBSET {i \in DOMAIN cards : cards[i] = 1}}

\* C16: hand_value returns the largest total not above 21 among the totals
\* obtained by counting each ace as 1 or as 11, and the total with every ace
\* counted as 1 when that one too exceeds 21.
C16_BestTotal ==
    call.op = "hand_value" =>
        /\ ~ret.raised
        /\ ret.value = IF \E t \in AceTotals(game.cards) : t <= 21
                       THEN SetMax({t \in AceTotals(game.cards) : t <= 21})
                       ELSE SumSeq(game.cards)

\* Two aces and a nine: one ace counts 11 and the other 1, for 21.
C16_Witness ==
    /\ call.op = "hand_value"
    /\ Cardinality({i \in DOMAIN game.cards : game.cards[i] = 1}) = 2
    /\ ret.value = 21
    /\ ret.value = SumSeq(game.cards) + 10

\* Two aces and two tens: over 21 however the aces count, so 22.
C16_WitnessOver ==
    /\ call.op = "hand_value"
    /\ \E i \in DOMAIN game.cards : game.cards[i] = 1
    /\ ret.value > 21
    /\ ret.value = SumSeq(game.cards)

Reversed(s) == [i \in DOMAIN s |-> s[Len(s) + 1 - i]]

\* The rounds that differ from g at most in the dealer's second card and in
\* the cards left in the deck.
BJHiddenVariants(g) ==
    {[g EXCEPT !.dealer_hand[2] = card, !.deck = deck] :
        card \in Range(CARD_VALUES),
        deck \in {g.deck, Reversed(g.deck), ButLast(g.deck), <<>>}}

\* C17: while a blackjack round is not terminal, the observation of every
\* actor names the dealer's first card and "hidden" and is the same in every
\* round that differs only in the dealer's second card or in the deck; the
\* observation inside a turn result is the observation of the actor, and a
\* command that draws no card returns the same turn result in every such
\* round.
C17_DealerCardHidden ==
    (HasRound(game) /\ ~IsTerminal(game)) =>
        /\ \A p \in Range(game.players) :
              \E obs \in {BJObservation(game, p)} :
                 /\ ~obs.raised
                 /\ obs.value.dealer_cards = <<card_label(game.dealer_hand[1]), HIDDEN>>
                 /\ obs.value.dealer_total.total = <<>>
                 /\ obs.value.text[3] = <<"Dealer", <<card_label(game.dealer_hand[1]), HIDDEN>>>>
                 /\ obs.value.text[5] = <<>>
                 /\ \A v \in BJHiddenVariants(game) : BJObservation(v, p) = obs
        /\ (call.op = "apply" /\ ~ret.raised) =>
              ret.observation = BJObservation(game, call.player).value
        /\ \A p \in Range(game.players) :
              \A command \in CommandsFor(game, p) :
                 StrLower(StrStrip(command)) # HIT =>
                    \E r \in {BJApply(game, p, command)} :
                       ~IsTerminal(r.game) =>
                          \A v \in BJHiddenVariants(game) :
                             BJApply(v, p, command).ret = r.ret

\* A round in play, after a hit, where the dealer's second card is not the
\* same as its first: showing it would change what the actor sees.
C17_Witness ==
    /\ game.kind = "blackjack"
    /\ HasRound(game)
    /\ ~IsTerminal(game)
    /\ call.op = "apply"
    /\ ~ret.raised
    /\ Has(ret.info, "drawn_card")
    /\ game.dealer_hand[2] # game.dealer_hand[1]
    /\ ret.observation.dealer_cards[2] = HIDDEN

(***************************************************************************)
(* Properties of heads-up poker, checked under SpecPoker.                  *)
(***************************************************************************)
\* The hands that differ from g at most in the hand of the opponent of
\* player_id and in the cards of the board plan after the first k.
PokerHiddenVariants(g, player_id, k) ==
    LET opponent == PokerOpponent(g, player_id)
        unrevealed == SubSeq(g.board_plan, k + 1, Len(g.board_plan))
    IN {[g EXCEPT !.player_states[opponent].hand = hand,
                  !.board_plan = SubSeq(g.board_plan, 1, k) \o rest] :
           hand \in {g.player_states[opponent].hand, SubSeq(g.deck, 1, 2)},
           rest \in {unrevealed, Reversed(unrevealed),
                     SubSeq(g.deck, 3, 2 + Len(unrevealed))}}

C19_FoldEndsHand ==
    [][/\ (HasRound(game) /\ ~IsTerminal(game)) =>
            /\ game.stage \in {"preflop", "flop", "turn", "river"}
            /\ FOLD \in Range(PokerLegalActions(game, game.current_player))
            /\ \E r \in {PokerApply(game, game.current_player, FOLD)} :
                  /\ ~r.ret.raised
                  /\ ~Has(r.ret.info, "invalid")
                  /\ r.ret.info.action = FOLD
       /\ (call'.op = "apply" /\ ~ret'.raised /\ Has(ret'.info, "action")
              /\ ret'.info.action = FOLD) =>
            \E folder \in {call'.player} :
              \E opponent \in {PokerOpponent(game, folder)} :
                /\ ~IsTerminal(game)
                /\ folder = game.current_player
                /\ opponent # folder
                /\ IsTerminal(game')
                /\ ret'.done = TRUE
                /\ ret'.reward = PokerFoldPenalty
                /\ ret'.reward < 0
                /\ game'.scores[folder] = game.scores[folder] + PokerFoldPenalty
                /\ game'.scores[opponent] = game.scores[opponent] + PokerWinReward
                /\ PokerWinReward > 0
                /\ game'.winner = opponent
                /\ ret'.info.winner = opponent
                /\ game'.stage = game.stage
                /\ PokerLegalActions(game', folder) = <<>>
                /\ PokerLegalActions(game', opponent) = <<>>
                /\ ret'.observation.legal_moves = <<>>
                /\ PokerObservation(game', opponent).value.legal_moves = <<>>
      ]_vars

\* A fold on the river, in answer to a bet.
C19_Witness ==
    /\ game.kind = "poker"
    /\ call.op = "apply"
    /\ ~ret.raised
    /\ Has(ret.info, "action")
    /\ ret.info.action = FOLD
    /\ game.stage = "river"
    /\ game.awaiting_call
    /\ IsTerminal(game)
    /\ game.winner = PokerOpponent(game, call.player)

PokerStages == <<"preflop", "flop", "turn", "river", "showdown", "finished">>

\* A hand that went through the showdown: terminal with nobody folded.
PokerShownDown(g) ==
    /\ HasRound(g)
    /\ IsTerminal(g)
    /\ \A p \in Range(g.players) : ~g.player_states[p].folded

\* The part of C20 that the engine keeps: the stage is one of the list, an
\* apply that changes it moves it to the next of the list, and a hand goes
\* through the showdown only from the river.
C20_StageSteps ==
    [][/\ game'.stage \in Range(PokerStages)
       /\ (call'.op = "apply" /\ game'.stage # game.stage) =>
             IndexOf(PokerStages, game'.stage) = IndexOf(PokerStages, game.stage) + 1
       /\ (call'.op = "apply" /\ ~PokerShownDown(game) /\ PokerShownDown(game')) =>
             game.stage = "river"
      ]_vars

\* C20: the poker stage takes the values preflop, flop, turn, river,
\* showdown, finished; every change of stage by an apply moves it to the
\* next stage of the list; and a hand resolved at the showdown has stage
\* finished.
C20_StageOrder ==
    [][/\ game'.stage \in Range(PokerStages)
       /\ (call'.op = "apply" /\ game'.stage # game.stage) =>
             IndexOf(PokerStages, game'.stage) = IndexOf(PokerStages, game.stage) + 1
       /\ PokerShownDown(game') => game'.stage = "finished"
      ]_vars

\* A hand resolved at the showdown, with a winner, whose stage is still
\* showdown.
C20_Witness ==
    /\ game.kind = "poker"
    /\ PokerShownDown(game)
    /\ call.op = "apply"
    /\ ~ret.raised
    /\ ret.done
    /\ Has(ret.info, "action")
    /\ game.winner # None
    /\ game.stage = "showdown"
    /\ ret.observation.stage = "showdown"

\* The opponent of player_id has bet in the current stage and the bet has
\* not been answered: the stage's actions hold that bet.
PokerBetPending(g, player_id) ==
    /\ Has(g.stage_actions, PokerOpponent(g, player_id))
    /\ g.stage_actions[PokerOpponent(g, player_id)] = "bet"

\* C21: in a poker hand in play the legal moves of the current actor are
\* call and fold when the opponent's bet of the stage is unanswered, and
\* check, bet and fold otherwise, each listed once; the other actor has no
\* legal move, and in a terminal hand nobody has.
C21_LegalMoves ==
    HasRound(game) =>
        \A p \in Range(game.players) :
          \E moves \in {PokerLegalActions(game, p)} :
            /\ Cardinality(Range(moves)) = Len(moves)
            /\ PokerObservation(game, p).value.legal_moves = moves
            /\ IsTerminal(game) => moves = <<>>
            /\ (~IsTerminal(game) /\ p # game.current_player) => moves = <<>>
            /\ (~IsTerminal(game) /\ p = game.current_player) =>
                  Range(moves) = IF PokerBetPending(game, p)
                                 THEN {CALL, FOLD}
                                 ELSE {CHECK, BET, FOLD}

\* A hand in play on the turn where the actor to move had checked and now
\* faces the opponent's bet.
C21_Witness ==
    /\ game.kind = "poker"
    /\ HasRound(game)
    /\ ~IsTerminal(game)
    /\ game.stage = "turn"
    /\ PokerBetPending(game, game.current_player)
    /\ Has(game.stage_actions, game.current_player)
    /\ game.stage_actions[game.current_player] = "check"
    /\ Range(PokerLegalActions(game, game.current_player)) = {CALL, FOLD}

(***************************************************************************)
(* hand_rank and best_hand_rank (poker/cards.py) on their own: cards are   *)
(* taken one by one from a part of the deck that holds hands of every      *)
(* class, and the two functions are called on the cards taken.             *)
(***************************************************************************)
MaxCards == 7

RankDeck ==
    <<<<"A", "s">>, <<"2", "s">>, <<"3", "s">>, <<"4", "s">>, <<"5", "s">>,
      <<"6", "s">>, <<"K", "s">>, <<"A", "h">>, <<"5", "h">>, <<"6", "h">>,
      <<"5", "d">>, <<"6", "d">>, <<"6", "c">>>>

InitRank ==
    /\ game = [kind |-> "cards", cards |-> <<>>, next |-> 1]
    /\ ret = NoReturn
    /\ call = NoCall
    /\ rejected = 0
    /\ gm = NoMaster
    /\ replay = NoReplay

\* Take one of the cards of the deck that lie after the last one taken.
RankDeal ==
    /\ Len(game.cards) < MaxCards
    /\ \E i \in game.next..Len(RankDeck) :
          game' = [game EXCEPT !.cards = Append(@, RankDeck[i]), !.next = i + 1]
    /\ ret' = NoReturn
    /\ call' = [op |-> "deal", player |-> None]
    /\ UNCHANGED <<rejected, gm, replay>>

RankHand ==
    /\ Len(game.cards) = 5
    /\ ret' = Returned(hand_rank(game.cards))
    /\ call' = [op |-> "hand_rank", player |-> None]
    /\ UNCHANGED <<game, rejected, gm, replay>>

RankBest ==
    /\ \E rank \in {best_hand_rank(game.cards)} :
          ret' = IF rank = <<>> THEN Raise("AssertionError") ELSE Returned(rank)
    /\ call' = [op |-> "best_hand_rank", player |-> None]
    /\ UNCHANGED <<game, rejected, gm, replay>>

NextRank == RankDeal \/ RankHand \/ RankBest

SpecRank == InitRank /\ [][NextRank]_vars

\* The cards of a sequence at the positions of a set, in their order.
RECURSIVE CardsAt(_, _)
CardsAt(cards, positions) ==
    IF positions = {} THEN <<>>
    ELSE CardsAt(cards, positions \ {SetMax(positions)}) \o <<cards[SetMax(positions)]>>

FiveOf(cards) ==
    {CardsAt(cards, positions) :
        positions \in {S \in SUBSET DOMAIN cards : Cardinality(S) = 5}}

\* The same cards, the last one first.
Rotated(cards) == IF cards = <<>> THEN <<>> ELSE <<Last(cards)>> \o ButLast(cards)

\* C22: on five or more distinct cards best_hand_rank returns the rank of
\* one of the five-card subsets, and no five-card subset has a greater
\* rank; on five cards it is hand_rank of the cards; and it returns the
\* same for the cards in reverse order and with the last card first, as
\* hand_rank does on five cards.  On fewer than five cards its assertion
\* fails.
C22_BestOfSubsets ==
    call.op = "best_hand_rank" =>
        /\ ret.raised <=> Len(game.cards) < 5
        /\ ~ret.raised =>
              /\ \E hand \in FiveOf(game.cards) : ret.value = hand_rank(hand)
              /\ \A hand \in FiveOf(game.cards) :
                    ~RankGreater(hand_rank(hand), ret.value)
              /\ Len(game.cards) = 5 =>
                    /\ ret.value = hand_rank(game.cards)
                    /\ hand_rank(Reversed(game.cards)) = ret.value
                    /\ hand_rank(Rotated(game.cards)) = ret.value
              /\ best_hand_rank(Reversed(game.cards)) = ret.value
              /\ best_hand_rank(Rotated(game.cards)) = ret.value

\* Seven cards whose best five are not the first five: the first five are a
\* pair at most and the best hand is a full house or better.
C22_Witness ==
    /\ call.op = "best_hand_rank"
    /\ Len(game.cards) = 7
    /\ ~ret.raised
    /\ ret.value[1] >= 6
    /\ hand_rank(SubSeq(game.cards, 1, 5))[1] <= 1

ValuesOf(hand) == {RANK_VALUES[hand[i][1]] : i \in DOMAIN hand}

SuitsOf(hand) == {hand[i][2] : i \in DOMAIN hand}

IsWheel(hand) == Len(hand) = 5 /\ ValuesOf(hand) = {14, 2, 3, 4, 5}

\* C23: hand_rank of A-2-3-4-5 has the tiebreak 5, in category 8 when the
\* five cards share a suit and in category 4 otherwise; every 2-3-4-5-6 of
\* the same category ranks above it; and the wheel in one suit ranks above
\* every straight of category 4, whatever its high card.
C23_Wheel ==
    (call.op = "hand_rank" /\ IsWheel(game.cards)) =>
        /\ ret.value = <<IF Cardinality(SuitsOf(game.cards)) = 1 THEN 8 ELSE 4, <<5>>>>
        /\ \A hand \in FiveOf(RankDeck) :
              \E rank \in {hand_rank(hand)} :
                /\ (ValuesOf(hand) = 2..6 /\ rank[1] = ret.value[1]) =>
                      /\ rank = <<ret.value[1], <<6>>>>
                      /\ RankGreater(rank, ret.value)
                /\ (ret.value[1] = 8 /\ rank[1] = 4) => RankGreater(ret.value, rank)
        /\ \A high \in 5..14 :
              /\ ret.value[1] = 8 => RankGreater(ret.value, <<4, <<high>>>>)
              /\ high > 5 => RankGreater(<<ret.value[1], <<high>>>>, ret.value)

\* The wheel in spades, ranked.
C23_Witness ==
    /\ call.op = "hand_rank"
    /\ IsWheel(game.cards)
    /\ SuitsOf(game.cards) = {"s"}
    /\ ret.value = <<8, <<5>>>>

\* A wheel in two suits, ranked.
C23_WitnessMixed ==
    /\ call.op = "hand_rank"
    /\ IsWheel(game.cards)
    /\ Cardinality(SuitsOf(game.cards)) = 2
    /\ ret.value = <<4, <<5>>>>

\* How many cards of a hand have the value v.
Mult(hand, v) == Cardinality({i \in DOMAIN hand : RANK_VALUES[hand[i][1]] = v})

\* The values with multiplicity m.
Groups(hand, m) == {v \in ValuesOf(hand) : Mult(hand, v) = m}

IsFlushHand(hand) == Cardinality(SuitsOf(hand)) = 1

IsStraightHand(hand) ==
    \/ \E low \in 2..10 : ValuesOf(hand) = low..(low + 4)
    \/ IsWheel(hand)

\* The class of a five-card hand, 8 (straight flush) down to 0 (high card).
HandClass(hand) ==
    CASE IsStraightHand(hand) /\ IsFlushHand(hand) -> 8
      [] Groups(hand, 4) # {} -> 7
      [] Groups(hand, 3) # {} /\ Groups(hand, 2) # {} -> 6
      [] IsFlushHand(hand) /\ ~IsStraightHand(hand) -> 5
      [] IsStraightHand(hand) /\ ~IsFlushHand(hand) -> 4
      [] Groups(hand, 3) # {} /\ Groups(hand, 2) = {} -> 3
      [] Cardinality(Groups(hand, 2)) = 2 -> 2
      [] Cardinality(Groups(hand, 2)) = 1 /\ Groups(hand, 3) = {} -> 1
      [] OTHER -> 0

\* The five values of a hand as poker compares them: larger groups first,
\* higher values first within groups of one size, the ace of a wheel last
\* and counted 1.
PokerOrder(hand) ==
    IF IsWheel(hand) THEN <<5, 4, 3, 2, 1>>
    ELSE LET quads == SetDesc(Groups(hand, 4))
             trips == SetDesc(Groups(hand, 3))
             pairs == SetDesc(Groups(hand, 2))
             twice(vs) == [i \in 1..(2 * Len(vs)) |-> vs[(i + 1) \div 2]]
         IN [i \in 1..(4 * Len(quads)) |-> quads[1]]
            \o [i \in 1..(3 * Len(trips)) |-> trips[1]]
            \o twice(pairs)
            \o SetDesc(Groups(hand, 1))

\* The tiebreak of the table for a hand of each class.
TableTiebreak(class, order) ==
    CASE class \in {8, 4} -> <<order[1]>>
      [] class = 7 -> <<order[1], order[5]>>
      [] class = 6 -> <<order[1], order[4]>>
      [] class \in {5, 0} -> order
      [] class = 3 -> <<order[1], order[4], order[5]>>
      [] class = 2 -> <<order[1], order[3], order[5]>>
      [] class = 1 -> <<order[1], order[3], order[4], order[5]>>

\* Every five-card hand of the deck with its rank, class and poker order.
RankedFives ==
    [hand \in FiveOf(RankDeck) |->
        [rank |-> hand_rank(hand), class |-> HandClass(hand), order |-> PokerOrder(hand)]]

\* C24: hand_rank of five distinct cards is the class of the hand with the
\* tiebreak of the table; against every other five-card hand its result is
\* greater exactly when the hand beats the other at poker (higher class, or
\* the same class and the greater values in poker's order), and equal
\* exactly when the two hands have the same class and the same values.
C24_RankIsPokerOrder ==
    call.op = "hand_rank" =>
        \E class \in {HandClass(game.cards)}, order \in {PokerOrder(game.cards)} :
          /\ Len(order) = 5
          /\ ret.value = <<class, TableTiebreak(class, order)>>
          /\ \A other \in DOMAIN RankedFives :
                \E o \in {RankedFives[other]} :
                  /\ RankGreater(ret.value, o.rank) <=>
                        \/ class > o.class
                        \/ class = o.class /\ TupleGreater(order, o.order)
                  /\ ret.value = o.rank <=> (class = o.class /\ order = o.order)

\* Two pair ranked, with another hand of the deck that ties with it and one
\* of the same class that it beats, in a deck with hands of all nine classes.
C24_Witness ==
    /\ call.op = "hand_rank"
    /\ {RankedFives[hand].class : hand \in DOMAIN RankedFives} = 0..8
    /\ ret.value[1] = 2
    /\ Len(ret.value[2]) = 3
    /\ \E other \in DOMAIN RankedFives :
          other # game.cards /\ RankedFives[other].rank = ret.value
    /\ \E other \in DOMAIN RankedFives :
          RankedFives[other].class = 2 /\ RankGreater(ret.value, RankedFives[other].rank)

(***************************************************************************)
(* Two matches on two separately constructed instances, their reset and    *)
(* apply calls interleaved in every order.  game.instances holds the two   *)
(* instances, ret the last result of each match, game.steps how many calls *)
(* each match has made.                                                    *)
(***************************************************************************)
MaxSteps == 2

PairGames ==
    TTTGames
    \cup {g \in BJGames : g.seed = {42} /\ Len(g.players) = 2}
    \cup {g \in PokerGames : g.seed = {13}}

\* Fields that every instance would share with the others.
Shared(instances, i, g) ==
    [k \in DOMAIN instances |->
        IF k = i THEN g
        ELSE IF instances[k].kind = g.kind THEN [instances[k] EXCEPT !.scores = g.scores]
        ELSE instances[k]]

\* __init__ and reset bind the fields of self to new objects: a call on
\* instance i changes the fields of instance i.
Own(instances, i, g) == [instances EXCEPT ![i] = g]

InitPair ==
    /\ \E g1, g2 \in PairGames : game = [kind |-> "pair", instances |-> <<g1, g2>>,
                                          steps |-> <<0, 0>>]
    /\ ret = <<NoReturn, NoReturn>>
    /\ call = [op |-> "new", player |-> None, match |-> 0]
    /\ rejected = 0
    /\ gm = NoMaster
    /\ replay = NoReplay

PairReset ==
    \E i \in 1..2 :
      /\ game.steps[i] < MaxSteps
      /\ \E entropy \in Seeds(game.instances[i]) :
            game' = [game EXCEPT
                       !.instances = Own(game.instances, i, Reset(game.instances[i], entropy)),
                       !.steps[i] = @ + 1]
      /\ ret' = [ret EXCEPT ![i] = NoReturn]
      /\ call' = [op |-> "reset", player |-> None, match |-> i]
      /\ UNCHANGED <<rejected, gm, replay>>

PairApply ==
    \E i \in 1..2 :
      /\ game.steps[i] < MaxSteps
      /\ \E player_id \in Range(game.instances[i].players) :
           \E command \in CommandsFor(game.instances[i], player_id) :
             \E r \in {Apply(game.instances[i], player_id, command)} :
               /\ game' = [game EXCEPT !.instances = Own(game.instances, i, r.game),
                                       !.steps[i] = @ + 1]
               /\ ret' = [ret EXCEPT ![i] = r.ret]
               /\ call' = [op |-> "apply", player |-> player_id, match |-> i]
      /\ UNCHANGED <<rejected, gm, replay>>

NextPair == PairReset \/ PairApply

SpecPair == InitPair /\ [][NextPair]_vars

\* A call of a match that runs alone takes instance g with last result r to
\* instance g2 with result r2.
AloneStep(g, r, op, player_id, g2, r2) ==
    \/ /\ op = "reset"
       /\ r2 = NoReturn
       /\ \E entropy \in Seeds(g) : g2 = Reset(g, entropy)
    \/ /\ op = "apply"
       /\ \E command \in CommandsFor(g, player_id) :
             \E alone \in {Apply(g, player_id, command)} :
                g2 = alone.game /\ r2 = alone.ret

PokerMoved(r, move) ==
    /\ ~r.raised
    /\ Has(r.info, "action")
    /\ r.info.action = move

\* player_id has made the move named in the current stage.
PokerDid(g, player_id, move) ==
    /\ Has(g.stage_actions, player_id)
    /\ g.stage_actions[player_id] = move

\* C26: an apply changes the poker stage exactly when it is a call, which
\* answers the opponent's pending bet, or a check made after the opponent's
\* check of the same stage; a first check passes the turn and a bet leaves
\* the stage as it is with the bet pending; a bet is accepted only in a
\* stage without a bet; and a stage begins, after a reset as after an
\* advance, with no action recorded and no bet pending.
C26_StageAdvance ==
    [][/\ (call'.op = "apply" /\ HasRound(game)) =>
            \E actor \in {call'.player} :
              \E opponent \in {PokerOpponent(game, actor)} :
                /\ game'.stage # game.stage <=>
                      \/ PokerMoved(ret', CALL)
                      \/ PokerMoved(ret', CHECK) /\ PokerDid(game, opponent, "check")
                /\ PokerMoved(ret', CALL) =>
                      /\ PokerDid(game, opponent, "bet")
                      /\ game.awaiting_call
                /\ (PokerMoved(ret', CHECK) /\ ~PokerDid(game, opponent, "check")) =>
                      /\ game.stage_actions = EmptyDict
                      /\ game'.current_player = opponent
                      /\ PokerDid(game', actor, "check")
                /\ PokerMoved(ret', BET) =>
                      /\ \A p \in DOMAIN game.stage_actions : game.stage_actions[p] # "bet"
                      /\ ~game.awaiting_call
                      /\ PokerDid(game', actor, "bet")
                      /\ game'.awaiting_call
                      /\ game'.current_player = opponent
                /\ game'.stage # game.stage =>
                      /\ game'.stage_actions = EmptyDict
                      /\ ~game'.awaiting_call
       /\ call'.op = "reset" =>
            /\ game'.stage = "preflop"
            /\ game'.stage_actions = EmptyDict
            /\ ~game'.awaiting_call
      ]_vars

\* The flop opened by the call of a bet that followed a check.
C26_Witness ==
    /\ game.kind = "poker"
    /\ game.stage = "flop"
    /\ call.op = "apply"
    /\ PokerMoved(ret, CALL)
    /\ ret.info.stage = "preflop"
    /\ game.stage_actions = EmptyDict
    /\ Len(game.history) = 5
    /\ ~IsTerminal(game)

\* How many cards of the board plan are visible at a stage.
BoardLength(stage) ==
    CASE stage = "preflop" -> 0
      [] stage = "flop" -> 3
      [] stage = "turn" -> 4
      [] stage \in {"river", "showdown", "finished"} -> 5

PokerHands(g) == [p \in Range(g.players) |-> g.player_states[p].hand]

\* C27: once a poker hand is dealt the board plan has five cards and each
\* actor two, nine distinct cards in all; an apply changes neither the plan
\* nor the hands; and the visible board is always the first 0, 3, 4 or 5
\* cards of the plan, by the stage.
C27_CardsFixed ==
    [][/\ HasRound(game') =>
            /\ Len(game'.board_plan) = 5
            /\ \A p \in Range(game'.players) : Len(game'.player_states[p].hand) = 2
            /\ Cardinality(Range(game'.board_plan)
                    \cup UNION {Range(game'.player_states[p].hand) :
                                   p \in Range(game'.players)}) = 9
       /\ game'.board = SubSeq(game'.board_plan, 1, BoardLength(game'.stage))
       /\ Len(game'.board) = IF HasRound(game') THEN BoardLength(game'.stage) ELSE 0
       /\ (call'.op = "apply" /\ HasRound(game)) =>
            /\ game'.board_plan = game.board_plan
            /\ PokerHands(game') = PokerHands(game)
      ]_vars

\* The river just revealed: five cards visible, plan and hands as dealt.
C27_Witness ==
    /\ game.kind = "poker"
    /\ game.stage = "river"
    /\ ~IsTerminal(game)
    /\ call.op = "apply"
    /\ game.stage_actions = EmptyDict
    /\ game.board = game.board_plan
    /\ Len(game.board) = 5
    /\ PokerHands(game) = PokerHands(Reset(Fresh(game), CHOOSE x \in game.seed : TRUE))

\* best_hand_rank of each seven cards a dealt hand can bring to a showdown,
\* worked out once.
ShowdownRanks == [cards \in PokerShowdownCards |-> best_hand_rank(cards)]

\* The ranking of an actor's two cards with the whole board plan.
ShowdownRank(g, p) ==
    LET cards == g.player_states[p].hand \o g.board_plan
    IN IF cards \in DOMAIN ShowdownRanks THEN ShowdownRanks[cards] ELSE best_hand_rank(cards)

\* What a step added to an actor's score.
Gain(g, g2, p) == g2.scores[p] - g.scores[p]

\* The step from the river into the showdown.
IsShowdownStep(g, g2) ==
    /\ g.kind = "poker" /\ g2.kind = "poker"
    /\ g.stage = "river" /\ g2.stage = "showdown"

\* C28: at a showdown each actor's two cards are ranked with the full
\* five-card board; the strictly higher ranking wins and is credited the win
\* reward, the other is charged the loss penalty; equal rankings credit both
\* the split reward and leave no winner.
C28_Showdown ==
    [][IsShowdownStep(game, game') =>
         LET first == game.players[1]
             second == game.players[2]
             r1 == ShowdownRank(game, first)
             r2 == ShowdownRank(game, second)
             Pays(w, l) == /\ game'.winner = w
                           /\ Gain(game, game', w) = PokerWinReward
                           /\ Gain(game, game', l) = PokerLossPenalty
         IN /\ call'.op = "apply"
            /\ game'.terminal
            /\ Len(game'.board) = 5
            /\ RankGreater(r1, r2) => Pays(first, second)
            /\ RankGreater(r2, r1) => Pays(second, first)
            /\ r1 = r2 => /\ game'.winner = None
                           /\ Gain(game, game', first) = PokerSplitReward
                           /\ Gain(game, game', second) = PokerSplitReward
      ]_vars

\* A showdown with a winner, just resolved.
C28_Witness ==
    /\ game.kind = "poker"
    /\ game.stage = "showdown"
    /\ call.op = "apply"
    /\ game.winner # None
    /\ RankGreater(ShowdownRank(game, game.winner),
                   ShowdownRank(game, PokerOpponent(game, game.winner)))

\* A showdown of equal rankings, just resolved.
C28_WitnessSplit ==
    /\ game.kind = "poker"
    /\ game.stage = "showdown"
    /\ call.op = "apply"
    /\ game.winner = None
    /\ ShowdownRank(game, game.players[1]) = ShowdownRank(game, game.players[2])

\* The step in which player_id folds.
IsFoldStep(g, g2, player_id) ==
    /\ g.kind = "poker" /\ g2.kind = "poker"
    /\ player_id \in DOMAIN g.player_states
    /\ player_id \in DOMAIN g2.player_states
    /\ ~g.terminal
    /\ ~g.player_states[player_id].folded
    /\ g2.player_states[player_id].folded

\* C29: when a poker actor folds, the score of the other actor rises by the
\* amount in the pot at the moment of the fold.
C29_FoldAwardsPot ==
    [][\A p \in Range(game.players) :
         (call'.op = "apply" /\ IsFoldStep(game, game', p)) =>
            Gain(game, game', PokerOpponent(game, p)) = game.pot
      ]_vars

\* A fold just made: the other actor holds the win reward, less than the pot.
C29_Witness ==
    /\ game.kind = "poker"
    /\ call.op = "apply"
    /\ game.terminal
    /\ \E p \in DOMAIN game.player_states :
         /\ game.player_states[p].folded
         /\ game.winner = PokerOpponent(game, p)
         /\ game.scores[game.winner] = PokerWinReward
         /\ game.scores[p] = PokerFoldPenalty
         /\ game.pot >= 2 * PokerBetAmount
         /\ game.pot > game.scores[game.winner]

\* The number of cells of the board that hold a symbol.
Marks(g, symbol) == Cardinality({i \in DOMAIN g.board : g.board[i] = symbol})

\* Marks balance, the turn count is the number of occupied cells, and while
\* the match is open the first actor moves exactly on equal counts.
TTTBalanced(g) ==
    /\ Marks(g, "X") - Marks(g, "O") \in {0, 1}
    /\ g.turn_count = Marks(g, "X") + Marks(g, "O")
    /\ g.turn_count = Cardinality({i \in DOMAIN g.board : g.board[i] # " "})
    /\ ~g.terminal =>
         (TTTCurrentPlayer(g) = g.players[1] <=> Marks(g, "X") = Marks(g, "O"))

\* C30: tic-tac-toe actors alternate strictly: X marks minus O marks is 0 or
\* 1, the turn count is the number of occupied cells, the first actor is to
\* move exactly when the counts are equal while the match is open, and an
\* accepted move that does not end the match passes the turn to the other actor.
C30_Alternation ==
    [][game'.kind = "tic_tac_toe" =>
         /\ TTTBalanced(game')
         /\ (/\ call'.op = "apply"
             /\ game'.turn_count = game.turn_count + 1
             /\ ~game'.terminal) =>
                /\ call'.player = TTTCurrentPlayer(game)
                /\ TTTCurrentPlayer(game') = TTTOpponent(game, TTTCurrentPlayer(game))
                /\ TTTCurrentPlayer(game') # TTTCurrentPlayer(game)
      ]_vars

\* Three accepted moves in an open match: two X, one O, the second actor to move.
C30_Witness ==
    /\ game.kind = "tic_tac_toe"
    /\ call.op = "apply"
    /\ ~game.terminal
    /\ game.turn_count = 3
    /\ Marks(game, "X") = 2
    /\ Marks(game, "O") = 1
    /\ TTTCurrentPlayer(game) = game.players[2]
    /\ ~ret.raised
    /\ Has(ret.info, "outcome")
    /\ ret.info.outcome = "ongoing"

\* The cell of row r and column c of the 3x3 board, counted from 1.
CellAt(r, c) == 3 * (r - 1) + c

\* The three rows, the three columns and the two diagonals, as sets of cells.
BoardLines ==
    {{CellAt(r, c) : c \in 1..3} : r \in 1..3}
    \cup {{CellAt(r, c) : r \in 1..3} : c \in 1..3}
    \cup {{CellAt(i, i) : i \in 1..3}, {CellAt(i, 4 - i) : i \in 1..3}}

HasLine(board, symbol) ==
    /\ Len(board) = 9
    /\ \E line \in BoardLines : \A i \in line : board[i] = symbol

BoardFull(board) == Len(board) = 9 /\ \A i \in 1..9 : board[i] # " "

\* C31: a tic-tac-toe match becomes terminal exactly when an accepted move
\* completes a line for the mover (the mover wins and gets the win reward, the
\* opponent is charged the loss penalty) or fills the board with no line (a
\* draw: reward 0, no winner); a line on the ninth move is a win; the two
\* actors never both have a line.
C31_Termination ==
    [][game'.kind = "tic_tac_toe" =>
         /\ ~(HasLine(game'.board, "X") /\ HasLine(game'.board, "O"))
         /\ (call'.op = "apply" /\ ~game.terminal) =>
              LET mover == call'.player
                  opponent == TTTOpponent(game, mover)
                  accepted == game'.board # game.board
                  line == accepted /\ HasLine(game'.board, SYMBOLS[mover])
                  full == accepted /\ BoardFull(game'.board)
              IN /\ game'.terminal <=> (line \/ full)
                 /\ line =>
                      /\ game'.winner = mover
                      /\ ret'.reward = TTTWinReward /\ ret'.done
                      /\ Gain(game, game', mover) = TTTWinReward
                      /\ Gain(game, game', opponent) = TTTLossPenalty
                 /\ (full /\ ~line) =>
                      /\ game'.winner = None
                      /\ ret'.reward = 0 /\ ret'.done
                      /\ game'.scores = game.scores
                 /\ ~accepted => game'.turn_count = game.turn_count
      ]_vars

\* The ninth move completes a line: a win on a full board.
C31_Witness ==
    /\ game.kind = "tic_tac_toe"
    /\ call.op = "apply"
    /\ game.terminal
    /\ BoardFull(game.board)
    /\ HasLine(game.board, "X")
    /\ game.winner = "player_x"

\* A full board without a line: a draw.
C31_WitnessDraw ==
    /\ game.kind = "tic_tac_toe"
    /\ call.op = "apply"
    /\ game.terminal
    /\ BoardFull(game.board)
    /\ ~HasLine(game.board, "X") /\ ~HasLine(game.board, "O")
    /\ game.winner = None
    /\ ~ret.raised /\ ret.reward = 0

\* The actors of a blackjack round that were marked invalid.
BJForfeited(g) == {p \in DOMAIN g.player_states : g.player_states[p].outcome = "invalid"}

BJUnfinished(g) == {p \in DOMAIN g.player_states : ~g.player_states[p].done}

\* The step in which the current actor submitted an illegal command.
IsIllegalCommandStep(r) ==
    /\ ~r.raised
    /\ Has(r.info, "reason")
    /\ r.info.reason = "illegal_command"

\* C32: in blackjack an illegal command by the current actor marks that actor
\* finished with outcome invalid; from then on the actor is never the current
\* actor, no apply changes its state or its score (the comparison against the
\* dealer skips it), its outcome is still invalid at the end, and the other
\* actors keep their hands and go on playing.
C32_Forfeit ==
    [][game'.kind = "blackjack" =>
         /\ \A p \in BJForfeited(game') :
              /\ game'.player_states[p].done
              /\ ~game'.terminal => BJCurrentPlayer(game').ret.value # p
         /\ call'.op = "apply" =>
              \A p \in BJForfeited(game) :
                 /\ game'.player_states[p] = game.player_states[p]
                 /\ game'.scores[p] = game.scores[p]
         /\ (call'.op = "apply" /\ IsIllegalCommandStep(ret')) =>
              LET p == call'.player IN
              /\ p \in BJForfeited(game') \ BJForfeited(game)
              /\ Gain(game, game', p) = BJInvalidPenalty
              /\ ret'.reward = BJInvalidPenalty
              /\ \A q \in DOMAIN game.player_states \ {p} :
                   /\ game'.player_states[q].hand = game.player_states[q].hand
                   /\ game'.player_states[q].done = game.player_states[q].done
              /\ BJUnfinished(game) # {p} =>
                   /\ ~game'.terminal
                   /\ BJCurrentPlayer(game').ret.value \in BJUnfinished(game) \ {p}
      ]_vars

\* A finished match: one actor forfeited by an illegal command and kept the
\* invalid outcome and penalty, another played on and was compared to the dealer.
C32_Witness ==
    /\ game.kind = "blackjack"
    /\ game.terminal
    /\ game.dealer_resolved
    /\ \E p \in BJForfeited(game) :
         /\ game.scores[p] = BJInvalidPenalty
         /\ \E q \in DOMAIN game.player_states :
              /\ game.player_states[q].outcome \in {"win", "push", "lose"}
              /\ IndexOf(game.players, q) > IndexOf(game.players, p)

\* What a rejected apply must leave alone: who is to move, the cards and the
\* board, poker's stage, pot and pending bet, and the terminal flag.
Standing(g) ==
    CASE g.kind = "tic_tac_toe" ->
           [current |-> TTTCurrentPlayer(g), board |-> g.board, terminal |-> g.terminal]
      [] g.kind = "blackjack" ->
           [current |-> BJCurrentPlayer(g).ret,
            hands |-> [p \in DOMAIN g.player_states |-> g.player_states[p].hand],
            dealer_hand |-> g.dealer_hand, deck |-> g.deck,
            unfinished |-> BJUnfinished(g), terminal |-> g.terminal]
      [] g.kind = "poker" ->
           [current |-> PokerCurrentPlayer(g), hands |-> PokerHands(g),
            board |-> g.board, stage |-> g.stage, pot |-> g.pot,
            awaiting_call |-> g.awaiting_call, terminal |-> g.terminal]

\* An apply that was answered as out of turn, or as an illegal command or move
\* in a game that does not forfeit on it.
IsRejection(g, r) ==
    /\ ~r.raised
    /\ Has(r.info, "invalid")
    /\ \/ r.info.reason = "out_of_turn"
       \/ g.kind \in {"tic_tac_toe", "poker"}
            /\ r.info.reason \in {"illegal_move", "illegal_command"}

\* C33: a rejected apply (out of turn in any game, an illegal command by the
\* current actor in poker or tic-tac-toe) does not advance the game: current
\* actor, board, hands, poker stage, pot and pending-bet flag and the terminal
\* flag are as before, the game is not ended and the same actor is to move.
C33_RejectionStands ==
    [][(call'.op = "apply" /\ IsRejection(game, ret')) =>
         /\ Standing(game') = Standing(game)
         /\ ~game'.terminal
         /\ ~ret'.done
         /\ CurrentPlayer(game').ret = CurrentPlayer(game).ret
      ]_vars

\* The current poker actor was just refused an illegal command while a bet is pending.
C33_Witness ==
    /\ game.kind = "poker"
    /\ call.op = "apply"
    /\ IsRejection(game, ret)
    /\ ret.info.reason = "illegal_command"
    /\ call.player = game.current_player
    /\ game.awaiting_call
    /\ game.pot = 3 * PokerBetAmount

\* A blackjack actor was just refused out of turn.
C33_WitnessOutOfTurn ==
    /\ game.kind = "blackjack"
    /\ call.op = "apply"
    /\ IsRejection(game, ret)
    /\ ret.info.reason = "out_of_turn"
    /\ BJCurrentPlayer(game).ret.value # call.player

\* A tic-tac-toe move onto an occupied cell was just refused.
C33_WitnessOccupied ==
    /\ game.kind = "tic_tac_toe"
    /\ call.op = "apply"
    /\ IsRejection(game, ret)
    /\ ret.info.reason = "illegal_move"
    /\ game.turn_count >= 1
    /\ call.player = TTTCurrentPlayer(game)

\* The actor k seats after player_id, cyclically.
SeatAfter(g, player_id, k) ==
    g.players[((IndexOf(g.players, player_id) - 1 + k) % Len(g.players)) + 1]

\* The first unfinished actor after player_id in cyclic seat order; player_id
\* itself comes last.
NextUnfinished(g, player_id) ==
    LET steps == {k \in 1..Len(g.players) : SeatAfter(g, player_id, k) \in BJUnfinished(g)}
    IN SeatAfter(g, player_id, CHOOSE k \in steps : \A k2 \in steps : k <= k2)

\* An apply answered as a hit or a stand that was carried out.
IsHitOrStand(r) ==
    /\ ~r.raised
    /\ Has(r.info, "action") \/ Has(r.info, "drawn_card")

\* C34: while a blackjack match is not terminal the current actor is an
\* unfinished actor; after an accepted hit or stand the actor to move is the
\* next unfinished actor after the mover in cyclic seat order, so the mover is
\* current again only when no other actor is unfinished; and the turn leaves
\* an actor only by that actor's own apply.
C34_TurnOrder ==
    [][(game'.kind = "blackjack" /\ HasRound(game')) =>
         /\ ~game'.terminal =>
              BJCurrentPlayer(game').ret.value \in BJUnfinished(game')
         /\ (call'.op = "apply" /\ HasRound(game) /\ ~game.terminal) =>
              LET mover == call'.player
                  before == BJCurrentPlayer(game).ret.value
              IN /\ (IsHitOrStand(ret') /\ ~game'.terminal) =>
                      /\ mover = before
                      /\ BJCurrentPlayer(game').ret.value = NextUnfinished(game', mover)
                      /\ BJUnfinished(game') # {mover} =>
                           BJCurrentPlayer(game').ret.value # mover
                 /\ (~game'.terminal /\ BJCurrentPlayer(game').ret.value # before) =>
                      mover = before
                 /\ (IsHitOrStand(ret') /\ game'.terminal) => BJUnfinished(game') = {}
      ]_vars

\* The third of three actors hit without busting and the turn wrapped round
\* to the first, who had hit before and is still in the round.
C34_Witness ==
    /\ game.kind = "blackjack"
    /\ Len(game.players) = 3
    /\ HasRound(game)
    /\ ~game.terminal
    /\ call.op = "apply"
    /\ call.player = game.players[3]
    /\ IsHitOrStand(ret)
    /\ game.players[3] \in BJUnfinished(game)
    /\ Len(game.player_states[game.players[1]].hand) = 3
    /\ BJCurrentPlayer(game).ret.value = game.players[1]

(***************************************************************************)
(* The single-player practice environment of                               *)
(* bench/adapters/poker/adapter.py: HeadsUpPokerEnv.  Its deck and its     *)
(* ranking are written like those of poker/cards.py; rewards are in        *)
(* tenths.  The model follows an instance through its first hand: a later  *)
(* reset would deal from the generator where the first shuffle left it.    *)
(***************************************************************************)
EnvSeeds == {22, 3, 26, 0, 321}

\* random.Random(seed).shuffle(deck), as CPython computes it.
EnvShuffle(seed) ==
    CASE seed = 22 ->
           <<
             <<"K", "c">>, <<"J", "s">>, <<"7", "h">>, <<"8", "s">>, <<"K", "h">>, <<"2", "s">>,
             <<"8", "d">>, <<"9", "h">>, <<"9", "d">>, <<"Q", "s">>, <<"2", "d">>, <<"A", "s">>,
             <<"Q", "d">>, <<"A", "d">>, <<"3", "s">>, <<"5", "s">>, <<"T", "d">>, <<"A", "c">>,
             <<"J", "h">>, <<"6", "c">>, <<"4", "d">>, <<"T", "s">>, <<"8", "h">>, <<"7", "c">>,
             <<"9", "c">>, <<"6", "d">>, <<"T", "h">>, <<"Q", "c">>, <<"3", "d">>, <<"5", "h">>,
             <<"4", "h">>, <<"6", "s">>, <<"A", "h">>, <<"J", "d">>, <<"8", "c">>, <<"T", "c">>,
             <<"K", "d">>, <<"7", "s">>, <<"2", "c">>, <<"6", "h">>, <<"5", "d">>, <<"3", "h">>,
             <<"7", "d">>, <<"Q", "h">>, <<"3", "c">>, <<"K", "s">>, <<"4", "c">>, <<"9", "s">>,
             <<"J", "c">>, <<"2", "h">>, <<"5", "c">>, <<"4", "s">>
           >>
      [] seed = 3 ->
           <<
             <<"5", "h">>, <<"9", "s">>, <<"2", "c">>, <<"6", "c">>, <<"9", "h">>, <<"8", "d">>,
             <<"A", "c">>, <<"7", "d">>, <<"J", "s">>, <<"4", "d">>, <<"T", "s">>, <<"3", "d">>,
             <<"4", "c">>, <<"6", "h">>, <<"T", "h">>, <<"A", "s">>, <<"8", "s">>, <<"9", "c">>,
             <<"2", "h">>, <<"6", "d">>, <<"3", "h">>, <<"2", "d">>, <<"7", "h">>, <<"K", "s">>,
             <<"K", "c">>, <<"Q", "c">>, <<"Q", "h">>, <<"8", "c">>, <<"Q", "d">>, <<"7", "s">>,
             <<"3", "c">>, <<"4", "h">>, <<"8", "h">>, <<"A", "h">>, <<"J", "c">>, <<"5", "s">>,
             <<"5", "d">>, <<"T", "c">>, <<"6", "s">>, <<"K", "h">>, <<"2", "s">>, <<"K", "d">>,
             <<"3", "s">>, <<"A", "d">>, <<"Q", "s">>, <<"9", "d">>, <<"J", "d">>, <<"7", "c">>,
             <<"4", "s">>, <<"T", "d">>, <<"J", "h">>, <<"5", "c">>
           >>
      [] seed = 26 ->
           <<
             <<"J", "h">>, <<"A", "s">>, <<"Q", "h">>, <<"A", "h">>, <<"6", "s">>, <<"8", "h">>,
             <<"9", "h">>, <<"7", "c">>, <<"3", "h">>, <<"Q", "c">>, <<"Q", "s">>, <<"7", "h">>,
             <<"7", "d">>, <<"9", "s">>, <<"K", "d">>, <<"T", "h">>, <<"K", "s">>, <<"6", "h">>,
             <<"9", "c">>, <<"7", "s">>, <<"2", "s">>, <<"6", "d">>, <<"3", "c">>, <<"4", "c">>,
             <<"K", "h">>, <<"8", "s">>, <<"T", "c">>, <<"J", "s">>, <<"6", "c">>, <<"3", "d">>,
             <<"3", "s">>, <<"4", "h">>, <<"5", "d">>, <<"2", "h">>, <<"A", "d">>, <<"8", "d">>,
             <<"5", "c">>, <<"A", "c">>, <<"4", "d">>, <<"T", "s">>, <<"J", "c">>, <<"2", "d">>,
             <<"9", "d">>, <<"4", "s">>, <<"2", "c">>, <<"T", "d">>, <<"J", "d">>, <<"8", "c">>,
             <<"5", "h">>, <<"Q", "d">>, <<"5", "s">>, <<"K", "c">>
           >>
      [] seed = 0 ->
           <<
             <<"9", "s">>, <<"5", "s">>, <<"K", "h">>, <<"Q", "h">>, <<"J", "d">>, <<"3", "c">>,
             <<"3", "h">>, <<"J", "s">>, <<"2", "h">>, <<"A", "h">>, <<"T", "h">>, <<"2", "s">>,
             <<"3", "s">>, <<"T", "c">>, <<"7", "s">>, <<"5", "d">>, <<"A", "c">>, <<"9", "h">>,
             <<"T", "d">>, <<"K", "s">>, <<"J", "c">>, <<"4", "c">>, <<"Q", "d">>, <<"6", "h">>,
             <<"5", "c">>, <<"4", "d">>, <<"7", "h">>, <<"8", "c">>, <<"A", "d">>, <<"7", "c">>,
             <<"2", "c">>, <<"Q", "c">>, <<"4", "h">>, <<"K", "c">>, <<"3", "d">>, <<"Q", "s">>,
             <<"6", "d">>, <<"4", "s">>, <<"K", "d">>, <<"5", "h">>, <<"J", "h">>, <<"7", "d">>,
             <<"9", "d">>, <<"6", "c">>, <<"8", "h">>, <<"9", "c">>, <<"T", "s">>, <<"6", "s">>,
             <<"2", "d">>, <<"8", "d">>, <<"A", "s">>, <<"8", "s">>
           >>
      [] OTHER -> PokerShuffle(seed)

\* __init__: self._rng = random.Random(seed); self._state = None
EnvNew(seed) ==
    [kind |-> "poker_env", seed |-> seed, has_state |-> FALSE, stage |-> None,
     player_hand |-> <<>>, opponent_hand |-> <<>>, board |-> <<>>, board_plan |-> <<>>,
     pot |-> 0, history |-> <<>>, done |-> FALSE, reward |-> 0, winner |-> None,
     message |-> None]

EnvLegalMoves(stage) ==
    IF stage \in {"showdown", "finished"} THEN <<>> ELSE <<CHECK, BET, FOLD>>

\* The lines of _render_state: the fixed title and the values formatted in.
EnvRenderState(e) ==
    <<"Heads-Up Poker Practice", stage_label(e.stage), e.player_hand, e.board, e.pot,
      EnvLegalMoves(e.stage), e.message>>

EnvReset(e, seed) ==
    LET deck == EnvShuffle(seed)
        dealt == [e EXCEPT !.has_state = TRUE,
                           !.stage = "preflop",
                           !.player_hand = PopMany(deck, 2),
                           !.opponent_hand = PopMany(SubSeq(deck, 1, Len(deck) - 2), 2),
                           !.board = <<>>,
                           !.board_plan = PopMany(SubSeq(deck, 1, Len(deck) - 4), 5),
                           !.pot = 2,
                           !.history = <<"Blinds posted. Hand begins.">>,
                           !.done = FALSE,
                           !.reward = 0,
                           !.winner = None,
                           !.message = "You are on the button."]
    IN [game |-> dealt, ret |-> Returned(EnvRenderState(dealt))]

\* The seven cards either side holds on the full board of a hand the model deals.
EnvShowdownCards ==
    UNION {{EnvReset(EnvNew({seed}), seed).game.player_hand
                \o EnvReset(EnvNew({seed}), seed).game.board_plan,
            EnvReset(EnvNew({seed}), seed).game.opponent_hand
                \o EnvReset(EnvNew({seed}), seed).game.board_plan} : seed \in EnvSeeds}

\* _best_hand_rank computed once for each of these.
EnvBestRanks == [cards \in EnvShowdownCards |-> best_hand_rank(cards)]

\* _best_hand_rank(cards): the statements of cards.py's best_hand_rank, over
\* a _hand_rank that repeats cards.py's hand_rank.
EnvBestHandRank(cards) ==
    IF cards \in DOMAIN EnvBestRanks THEN EnvBestRanks[cards] ELSE best_hand_rank(cards)

\* _snapshot(valid): the PokerOutcome of the state as it is.
EnvSnapshot(e, valid) ==
    [game |-> e,
     ret |-> [raised |-> FALSE, description |-> EnvRenderState(e), reward |-> e.reward,
              done |-> e.done, legal_moves |-> EnvLegalMoves(e.stage), valid |-> valid,
              stage |-> e.stage, winner |-> e.winner, pot |-> e.pot,
              history |-> e.history]]

EnvResolveShowdown(e) ==
    LET player_rank == EnvBestHandRank(e.player_hand \o e.board)
        opponent_rank == EnvBestHandRank(e.opponent_hand \o e.board)
        resolved ==
          IF RankGreater(player_rank, opponent_rank)
          THEN [e EXCEPT !.reward = 10, !.winner = "player",
                         !.history = Append(e.history, "Showdown: player wins the hand."),
                         !.message = "You won the hand at showdown."]
          ELSE IF RankGreater(opponent_rank, player_rank)
          THEN [e EXCEPT !.reward = -10, !.winner = "opponent",
                         !.history = Append(e.history, "Showdown: opponent wins the hand."),
                         !.message = "Opponent wins at showdown."]
          ELSE [e EXCEPT !.reward = 0, !.winner = "split",
                         !.history = Append(e.history, "Showdown: hand ends in a split pot."),
                         !.message = "Split pot at showdown."]
    IN [resolved EXCEPT !.done = TRUE, !.stage = "finished"]

EnvAdvanceStage(e) ==
    CASE e.stage = "preflop" ->
           [e EXCEPT !.board = SubSeq(e.board_plan, 1, 3), !.stage = "flop",
                     !.message = "Flop revealed."]
      [] e.stage = "flop" ->
           [e EXCEPT !.board = SubSeq(e.board_plan, 1, 4), !.stage = "turn",
                     !.message = "Turn card revealed."]
      [] e.stage = "turn" ->
           [e EXCEPT !.board = SubSeq(e.board_plan, 1, 5), !.stage = "river",
                     !.message = "River card revealed."]
      [] e.stage = "river" ->
           EnvResolveShowdown([e EXCEPT !.board = SubSeq(e.board_plan, 1, 5),
                                        !.stage = "showdown"])
      [] e.stage = "showdown" -> [e EXCEPT !.stage = "finished", !.done = TRUE]
      [] OTHER -> [e EXCEPT !.done = TRUE, !.stage = "finished"]

EnvOpponentCalls(e) ==
    LET rank == EnvBestHandRank(e.opponent_hand \o SubSeq(e.board_plan, 1, 5))
        category == rank[1]
        category_threshold == IF e.stage \in {"turn", "river"} THEN 2 ELSE 1
    IN \/ category >= category_threshold
       \/ category = 0 /\ rank[2] # <<>> /\ SetMax(Range(rank[2])) >= 13

EnvStep(e, command) ==
    IF ~e.has_state THEN [game |-> e, ret |-> Raise("RuntimeError")]
    ELSE IF e.done
    THEN EnvSnapshot([e EXCEPT !.message = "Hand already concluded."], FALSE)
    ELSE LET normalized == StrLower(StrStrip(command)) IN
    IF normalized \notin Range(EnvLegalMoves(e.stage))
    THEN EnvSnapshot([e EXCEPT !.message =
                        "Invalid move. Choose from the listed legal moves."], FALSE)
    ELSE IF normalized = FOLD
    THEN EnvSnapshot([e EXCEPT !.done = TRUE, !.reward = -10, !.winner = "opponent",
                               !.history = Append(e.history,
                                    "Player folds. Opponent wins the pot."),
                               !.message = "You folded. Opponent takes the pot.",
                               !.stage = "finished"], TRUE)
    ELSE IF normalized = BET
    THEN LET bet == [e EXCEPT !.pot = e.pot + 1,
                              !.history = Append(e.history, "Player bets one chip.")]
         IN IF EnvOpponentCalls(bet)
            THEN EnvSnapshot(EnvAdvanceStage(
                   [bet EXCEPT !.pot = bet.pot + 1,
                               !.history = Append(bet.history, "Opponent calls the bet."),
                               !.message = "Opponent calls. Moving to the next street."]),
                   TRUE)
            ELSE EnvSnapshot([bet EXCEPT !.done = TRUE, !.reward = 10, !.winner = "player",
                                         !.message = "Opponent folds. Pot awarded.",
                                         !.history = Append(bet.history,
                                              "Opponent folds to the bet."),
                                         !.stage = "finished"], TRUE)
    ELSE EnvSnapshot(EnvAdvanceStage(
           [e EXCEPT !.history = Append(e.history, "Player checks."),
                     !.message = "Check recorded."]), TRUE)

\* The commands a caller submits to the environment.
EnvCommands == {CHECK, BET, FOLD, CALL, <<" ", "B", "e", "t">>}

InitEnv ==
    /\ game \in {EnvNew({seed}) : seed \in EnvSeeds}
    /\ ret = NoReturn
    /\ call = NoCall
    /\ rejected = 0
    /\ gm = NoMaster
    /\ replay = NoReplay

DoEnvReset ==
    /\ ~game.has_state
    /\ \E r \in {EnvReset(game, CHOOSE x \in game.seed : TRUE)} :
         /\ game' = r.game
         /\ ret' = r.ret
    /\ call' = [op |-> "reset", player |-> None]
    /\ UNCHANGED <<rejected, gm, replay>>

DoEnvStep ==
    \E command \in EnvCommands :
      \E r \in {EnvStep(game, command)} :
        /\ rejected' = IF ~r.ret.raised /\ r.ret.valid THEN rejected ELSE rejected + 1
        /\ rejected' <= MaxRejected
        /\ game' = r.game
        /\ ret' = r.ret
        /\ call' = [op |-> "step", player |-> None]
        /\ UNCHANGED <<gm, replay>>

NextEnv == DoEnvReset \/ DoEnvStep

SpecEnv == InitEnv /\ [][NextEnv]_vars

\* The opponent's best ranking on the final board, computed over the
\* five-card subsets without the environment's table.
OpponentFinalRank(e) == best_hand_rank(e.opponent_hand \o e.board_plan)

\* The calling rule: a category at or above the stage threshold, or an
\* unpaired hand whose highest card is at least high.
CallsBy(e, high) ==
    LET rank == OpponentFinalRank(e) IN
    \/ rank[1] >= (IF e.stage \in {"preflop", "flop"} THEN 1 ELSE 2)
    \/ rank[1] = 0 /\ SetMax(Range(rank[2])) >= high

\* The step in which the player's bet went in.
IsBetStep(e, e2) ==
    /\ e.kind = "poker_env" /\ e.has_state /\ ~e.done
    /\ e2.pot > e.pot

\* C35: the built-in opponent calls the player's bet exactly when its best
\* hand on the final board has a category at or above the stage threshold (1
\* at preflop and flop, 2 at turn and river) or is unpaired and ace-high;
\* otherwise it folds and the player wins the hand with reward +1.
C35_OpponentCalls ==
    [][IsBetStep(game, game') =>
         IF CallsBy(game, 14)
         THEN /\ game'.pot = game.pot + 2
              /\ game'.stage # game.stage
         ELSE /\ game'.pot = game.pot + 1
              /\ game'.done /\ game'.stage = "finished"
              /\ game'.winner = "player"
              /\ game'.reward = 10 /\ ret'.reward = 10
      ]_vars

\* The opponent holds an unpaired king-high hand and has just called a bet.
C35_Witness ==
    /\ game.kind = "poker_env"
    /\ call.op = "step"
    /\ game.stage = "flop"
    /\ game.pot = 4
    /\ ~game.done
    /\ OpponentFinalRank(game)[1] = 0
    /\ SetMax(Range(OpponentFinalRank(game)[2])) = 13
    /\ game.history[Len(game.history)] = "Opponent calls the bet."

\* Instances constructed with the caller's own actor identifiers.
NamedGames ==
    {TTTNew(<<"alice", "bob">>),
     BJNew(<<"alice", "bob", "carol">>, {42}),
     PokerNew(<<"bob", "alice">>, {13})}

\* An apply by a listed actor; one that raises counts against MaxRejected
\* like one that is penalised (a raising apply may have charged a penalty).
DoNamedApply ==
    \E player_id \in Range(game.players) :
      \E command \in CommandsFor(game, player_id) :
        \E r \in {Apply(game, player_id, command)} :
        /\ rejected' = IF Penalised(game, r) \/ r.ret.raised THEN rejected + 1 ELSE rejected
        /\ rejected' <= MaxRejected
        /\ game' = r.game
        /\ ret' = r.ret
        /\ call' = [op |-> "apply", player |-> player_id]
        /\ UNCHANGED <<gm, replay>>

NextNamed == DoReset \/ DoNamedApply

SpecNamed == InitOf(NamedGames) /\ [][NextNamed]_vars

\* C36: a game constructed with a caller-chosen list of actor identifiers is
\* played with them: after reset, observation and legal_actions answer for
\* every listed actor, and apply by a listed actor does not fail on the
\* identifier (no KeyError), in tic-tac-toe too.
C36_NamedActors ==
    [][HasRound(game') =>
         /\ \A p \in Range(game'.players) :
              /\ ~Observation(game', p).raised
              /\ LegalActions(game', p) \in Seq(Range(LegalActions(game', p)))
         /\ (call'.op = "apply" /\ HasRound(game)) =>
              ~(ret'.raised /\ ret'.error = "KeyError")
      ]_vars

\* A tic-tac-toe match of alice and bob after reset: alice, who is to move,
\* has just been answered with a KeyError.
C36_Witness ==
    /\ game.kind = "tic_tac_toe"
    /\ game.players = <<"alice", "bob">>
    /\ HasRound(game)
    /\ call.op = "apply"
    /\ call.player = "alice"
    /\ TTTCurrentPlayer(game) = "alice"
    /\ ret.raised /\ ret.error = "KeyError"
    /\ Observation(game, "alice").raised

(***************************************************************************)
(* SpecMatch: whole matches of tic-tac-toe and poker run by a GameMaster   *)
(* with the default ceiling.  The agents submit the first or the last      *)
(* legal move they are shown, and up to MaxRejected times a command the    *)
(* game rejects.                                                           *)
(***************************************************************************)
MatchGames == TTTGames \cup {g \in PokerGames : g.seed \in {{13}, {321}}}

MatchChoices(moves) == {moves[n] : n \in {1, Len(moves)}}

\* A command the game turns down.
RejectedCommand(g) ==
    IF g.kind = "tic_tac_toe" THEN <<"p", "l", "a", "c", "e", " ", "4", "2">>
    ELSE <<"r", "a", "i", "s", "e">>

InitMatch ==
    /\ game \in MatchGames
    /\ ret = NoReturn
    /\ call = NoCall
    /\ rejected = 0
    /\ gm = GMInit(game, Range(game.players), DefaultMaxTurns).gm
    /\ replay = NoReplay

\* One turn of run(): the agent of the actor to move submits its command.
MatchTurnOf(cp, observation) ==
    \E command \in MatchChoices(observation.value.legal_moves)
                      \cup {RejectedCommand(game)} :
        \E r \in {GMTurn(game, gm, Submit(command))} :
            /\ rejected' = IF command = RejectedCommand(game) THEN rejected + 1
                           ELSE rejected
            /\ rejected' <= MaxRejected
            /\ game' = r.game
            /\ gm' = r.gm
            /\ ret' = r.ret
            /\ call' = [op |-> "apply", player |-> cp.ret.value]

MatchTurn ==
    /\ GMLoopEnters(game, gm)
    /\ \E cp \in {CurrentPlayer(game)} :
          MatchTurnOf(cp, GMObservation(cp.game, cp.ret.value))
    /\ UNCHANGED replay

NextMatch == LegalBegin \/ MatchTurn \/ LegalEnd

SpecMatch == InitMatch /\ [][NextMatch]_vars

\* C37: for a completed tic-tac-toe or poker match, MatchResult.winner is
\* the winner the game reports in its status: the actor who completed a line
\* or won the hand, none after a draw or a split pot, also when invalid-move
\* penalties were charged during the match.
C37_WinnerAgrees ==
    (/\ gm.pc = "returned"
     /\ gm.result.completed
     /\ game.kind \in {"tic_tac_toe", "poker"}) =>
        /\ gm.result.winner = gm.result.status.winner
        /\ gm.result.winner = game.winner

\* A drawn tic-tac-toe match in which one actor was charged an invalid-move
\* penalty: the game reports no winner, the result names the other actor.
C37_Witness ==
    /\ gm.pc = "returned"
    /\ gm.result.completed
    /\ game.kind = "tic_tac_toe"
    /\ BoardFull(game.board)
    /\ game.winner = None
    /\ gm.result.status.winner = None
    /\ rejected = 1
    /\ gm.result.winner # None
    /\ gm.result.scores[gm.result.winner] = 0

\* A split pot at a poker showdown after one rejected command.
C37_WitnessSplit ==
    /\ gm.pc = "returned"
    /\ gm.result.completed
    /\ game.kind = "poker"
    /\ game.stage = "showdown"
    /\ game.winner = None
    /\ rejected = 1
    /\ gm.result.winner # None

\* The configured reward of each final outcome of a blackjack actor.
BJRewardTable ==
    [outcome \in {"win", "push", "lose", "bust", "invalid"} |->
        CASE outcome = "win" -> BJWinReward
          [] outcome = "push" -> BJPushReward
          [] outcome = "lose" -> BJLosePenalty
          [] outcome = "bust" -> BJBustPenalty
          [] outcome = "invalid" -> BJInvalidPenalty]

\* C38: at the end of a blackjack match each actor's score is exactly the
\* reward constant of its final outcome (win, push, lose, bust or invalid);
\* a score is charged or credited once in a match, so an actor that bust or
\* was marked invalid gets no dealer-comparison reward on top.
C38_OneRewardEach ==
    [][(game'.kind = "blackjack" /\ HasRound(game')) =>
         /\ game'.terminal =>
              \A p \in Range(game'.players) :
                 /\ game'.player_states[p].outcome \in DOMAIN BJRewardTable
                 /\ game'.scores[p] = BJRewardTable[game'.player_states[p].outcome]
         /\ (call'.op = "apply" /\ HasRound(game)) =>
              \A p \in Range(game.players) :
                 game'.scores[p] # game.scores[p] =>
                    /\ game.scores[p] = 0
                    /\ game'.scores[p] = BJRewardTable[game'.player_states[p].outcome]
      ]_vars

\* A finished three-actor match with a bust, an invalid and a dealer-compared
\* actor, each holding exactly its own reward.
C38_Witness ==
    /\ game.kind = "blackjack"
    /\ game.terminal
    /\ game.dealer_resolved
    /\ call.op = "apply"
    /\ \E p, q, r \in Range(game.players) :
         /\ game.player_states[p].outcome = "bust" /\ game.scores[p] = BJBustPenalty
         /\ game.player_states[q].outcome = "invalid" /\ game.scores[q] = BJInvalidPenalty
         /\ game.player_states[r].outcome \in {"win", "push", "lose"}
         /\ game.scores[r] = BJRewardTable[game.player_states[r].outcome]

\* apply carried the command out: it returned, marked nothing invalid and
\* changed the round.
Accepted(g, r) ==
    /\ ~r.ret.raised
    /\ ~Has(r.ret.info, "invalid")
    /\ ~Has(r.ret.info, "reason")
    /\ r.game # g

\* The actor to move has legal actions and apply accepts each of them.
CanMove(g, cp) ==
    /\ ~cp.ret.raised
    /\ cp.ret.value \in Range(g.players)
    /\ LegalActions(cp.game, cp.ret.value) # <<>>
    /\ \A command \in Range(LegalActions(cp.game, cp.ret.value)) :
         Accepted(cp.game, Apply(cp.game, cp.ret.value, command))

\* C39: no game gets stuck: in every state of a round that is not terminal
\* current_player names an actor whose legal_actions are not empty and are
\* each accepted by apply; in every terminal state legal_actions is empty
\* for every actor.
C39_NeverStuck ==
    HasRound(game) =>
        IF IsTerminal(game)
        THEN \A p \in Range(game.players) : LegalActions(game, p) = <<>>
        ELSE CanMove(game, CurrentPlayer(game))

\* A poker actor facing a bet: call and fold are legal and both accepted.
C39_Witness ==
    /\ game.kind = "poker"
    /\ HasRound(game)
    /\ ~IsTerminal(game)
    /\ call.op = "apply"
    /\ game.awaiting_call
    /\ LegalActions(game, game.current_player) = <<CALL, FOLD>>
    /\ CanMove(game, CurrentPlayer(game))

\* A finished blackjack match: no actor has a legal action.
C39_WitnessTerminal ==
    /\ game.kind = "blackjack"
    /\ HasRound(game)
    /\ IsTerminal(game)
    /\ call.op = "apply"
    /\ \A p \in Range(game.players) : LegalActions(game, p) = <<>>


(***************************************************************************)
(* The queries of the TurnBasedGame contract, as a caller may issue them   *)
(* between resets and commands, and what the caller may then do to the     *)
(* lists and dicts inside a returned value.                                *)
(***************************************************************************)
QueryOps ==
    {"current_player", "observation", "legal_actions", "is_terminal", "final_scores",
     "status"}

\* One query: the game it leaves behind and what it returns.  Only
\* blackjack's current_player assigns to an attribute of the game.
Query(g, op, player_id) ==
    CASE op = "current_player" -> CurrentPlayer(g)
      [] op = "observation" -> [game |-> g, ret |-> Observation(g, player_id)]
      [] op = "legal_actions" ->
           [game |-> g,
            ret |-> IF /\ g.kind # "tic_tac_toe"
                       /\ ~g.terminal
                       /\ player_id \notin DOMAIN g.player_states
                    THEN Raise("KeyError")
                    ELSE Returned(LegalActions(g, player_id))]
      [] op = "is_terminal" -> [game |-> g, ret |-> Returned(IsTerminal(g))]
      [] op = "final_scores" -> [game |-> g, ret |-> Returned(FinalScores(g))]
      [] op = "status" -> [game |-> g, ret |-> Returned(Status(g))]

\* x itself.
SameAs(key, attribute) == [key |-> key, attribute |-> attribute, same |-> TRUE]

\* list(x), dict(x), [c for c in x]: a new object with the items of attribute x.
CopyOf(key, attribute) == [key |-> key, attribute |-> attribute, same |-> FALSE]

\* The lists and dicts inside the value a query returns: the key each is
\* found under (None: the value itself) and the attribute of the game it was
\* made from (None: made from computed items).  Their items are strings,
\* numbers and tuples.
Containers(kind, op) ==
    CASE op = "final_scores" -> {CopyOf(None, "scores")}
      [] op = "legal_actions" -> {CopyOf(None, None)}
      [] op = "observation" /\ kind = "tic_tac_toe" -> {CopyOf("board", "board")}
      [] op = "observation" /\ kind = "blackjack" ->
           {CopyOf("hand", "hand"), CopyOf("dealer_cards", None),
            CopyOf("legal_moves", None)}
      [] op = "observation" /\ kind = "poker" ->
           {CopyOf("board", "board"), CopyOf("hand", "hand"),
            CopyOf("legal_moves", None), CopyOf("history", "history")}
      [] op = "status" /\ kind = "tic_tac_toe" -> {CopyOf("board", "board")}
      [] op = "status" /\ kind = "blackjack" ->
           {CopyOf("dealer_hand", None), CopyOf("player_outcomes", None)}
      [] op = "status" /\ kind = "poker" ->
           {CopyOf("board", "board"), CopyOf("history", "history")}
      [] OTHER -> {}

\* x.clear() on a list or a dict: nothing is left under any index or key.
Cleared(x) == [k \in {} |-> x[k]]

\* The game after the caller cleared one container of the value it got for
\* player_id: clearing an object of the game clears it there too.
AfterClear(g, c, player_id) ==
    IF ~c.same \/ c.attribute = None THEN g
    ELSE IF c.attribute = "hand"
    THEN [g EXCEPT !.player_states[player_id].hand = <<>>]
    ELSE [g EXCEPT ![c.attribute] = Cleared(g[c.attribute])]

\* The returned value after the caller cleared the container under c.key.
ClearedIn(value, c) ==
    IF c.key = None THEN Cleared(value) ELSE [value EXCEPT ![c.key] = Cleared(value[c.key])]

QueryGames ==
    TTTGames
    \cup {g \in BJGames : g.seed = {42}}
    \cup {g \in PokerGames : g.seed = {13}}

DoQuery ==
    \E op \in QueryOps :
      \E player_id \in Range(game.players) :
        \E q \in {Query(game, op, player_id)} :
        /\ op \in {"current_player", "is_terminal", "final_scores", "status"} =>
              player_id = game.players[1]
        /\ game' = q.game
        /\ ret' = q.ret
        /\ call' = [op |-> op, player |-> player_id]
        /\ UNCHANGED <<rejected, gm, replay>>

DoClear ==
    /\ call.op \in QueryOps
    /\ ~ret.raised
    /\ \E c \in Containers(game.kind, call.op) :
         /\ game' = AfterClear(game, c, call.player)
         /\ ret' = Returned(ClearedIn(ret.value, c))
    /\ call' = [op |-> "clear", player |-> call.player]
    /\ UNCHANGED <<rejected, gm, replay>>

\* The commands submitted between the queries: any blackjack command from any
\* seat (the turn index is what current_player re-derives); in the other
\* two games the commands listed for the actor.
QueryCommands(g, player_id) ==
    IF g.kind = "blackjack" THEN CommandsFor(g, player_id)
    ELSE IF HasRound(g) THEN Range(LegalActions(g, player_id))
    ELSE {}

DoQueryApply ==
    \E player_id \in Range(game.players) :
      \E command \in QueryCommands(game, player_id) :
        \E r \in {Apply(game, player_id, command)} :
        /\ rejected' = IF Penalised(game, r) THEN rejected + 1 ELSE rejected
        /\ rejected' <= MaxRejected
        /\ game' = r.game
        /\ ret' = r.ret
        /\ call' = [op |-> "apply", player |-> player_id]
        /\ UNCHANGED <<gm, replay>>

NextQuery == DoReset \/ DoQueryApply \/ DoQuery \/ DoClear

SpecQuery == InitOf(QueryGames) /\ [][NextQuery]_vars

\* C40: a query (current_player, observation, legal_actions, is_terminal,
\* final_scores, status) leaves the game as it was in every reachable state,
\* blackjack's current_player with its re-derived turn index included, and so
\* does clearing a list or dict of the value a query returned.
C40_QueriesLeaveState ==
    [][call'.op \in QueryOps \cup {"clear"} => game' = game]_vars

\* Blackjack's current_player has re-derived the index in the middle of a
\* round, after the first actor stood and the second drew a card.
C40_Witness ==
    /\ game.kind = "blackjack"
    /\ call.op = "current_player"
    /\ ~ret.raised
    /\ ~game.terminal
    /\ game.current_index > 0
    /\ game.player_states[game.players[1]].done
    /\ \E p \in Range(game.players) : Len(game.player_states[p].hand) > 2

\* The caller has emptied the score dict it was handed; the game's scores stand.
C40_WitnessClear ==
    /\ call.op = "clear"
    /\ ret.value = EmptyDict
    /\ HasRound(game)
    /\ \E p \in Range(game.players) : game.scores[p] # 0

=============================================================================
